---- MODULE Spec2Model ----
(***************************************************************************)
(* EINSim post-processing scripts.  script/utils/utils.py and              *)
(* script/utils/aggregate_output.py: the line parser, the run identity,    *)
(* the run combiner, the output serialiser and the streaming file reducer. *)
(* script/utils.py: the positional line parser and the two readers used by *)
(* script/ein/ein.py and script/aggregate_output.py.                       *)
(*                                                                         *)
(* Representation of text.  A Python string that the scripts split on ' '  *)
(* and ':' is modelled as the sequence of its space-separated words, and   *)
(* each word as the sequence of its colon-separated pieces:                *)
(*     "uid:1"  is <<"uid", "1">>      "[DATA]" is <<"[DATA]">>            *)
(*     "0:1:1"  is <<"0", "1", "1">>   ":"      is <<"", "">>              *)
(* Numbers inside a text are decimal texts; int() and str() convert        *)
(* between a text and an integer.                                          *)
(***************************************************************************)
EXTENDS Integers, Sequences, FiniteSets, TLC

(***************************************************************************)
(* Bounds of the model.                                                    *)
(***************************************************************************)
\* largest integer whose decimal text int() is asked to read in the model
MaxInt == 24
\* lines read in one run, over all files
MaxLines == 3
\* records handed to one call of combine_runs
MaxRuns == 3
\* metadata fields changed between the two records compared by identity
MaxChanges == 2

(***************************************************************************)
(* Program constants (utils.py lines 23-38).                               *)
(***************************************************************************)
OBS_N_ERRORS_PER_BURST == "N_ERRORS_PER_BURST"
OBS_PER_BIT_ERROR_COUNT == "PER_BIT_ERROR_COUNT"
OBSERVABLES == {OBS_N_ERRORS_PER_BURST, OBS_PER_BIT_ERROR_COUNT}

MI_UID == 0
MI_NW == 1
MI_BL == 2
MI_BCL == 3
MI_PS == 4
MI_EM == 5
MI_CD == 6
MI_DP == 7
MI_CDP == 8
MI_OBS == 9
MI_MAX == 10

\* the key of each metadata slot, in the order of the MI_ enumeration
KeyName == <<"uid", "nw", "bl", "bcl", "ps", "em", "cd", "dp", "cdp", "obs">>

(***************************************************************************)
(* Python values: an int, a str or None.                                   *)
(***************************************************************************)
IntV(n) == [t |-> "int", i |-> n, s |-> ""]
StrV(x) == [t |-> "str", i |-> 0, s |-> x]
NoneV == [t |-> "none", i |-> 0, s |-> ""]

\* str(v)
PyStr(v) == IF v.t = "int" THEN ToString(v.i) ELSE v.s

\* the integers whose decimal text the model reads: the small ones, and those
\* of the recorded line LG_example
ExampleInts == {256, 768, 9998, 10000, 584576191}
IntDom == ((-1) .. MaxInt) \cup ExampleInts
IntText == [n \in IntDom |-> ToString(n)]
\* int(text) succeeds
IsIntText(x) == \E n \in IntDom : IntText[n] = x
\* int(text)
PyInt(x) == CHOOSE n \in IntDom : IntText[n] = x

\* text[:-1] for the texts that end a payload: the closing bracket or a number
ChopLast(x) ==
    IF x = "]" \/ x = "" THEN ""
    ELSE IF IsIntText(x) /\ PyInt(x) >= 10 THEN ToString(PyInt(x) \div 10)
    ELSE ""

\* ':'.join(pieces)
RECURSIVE JoinColon(_)
JoinColon(ps) ==
    IF ps = <<>> THEN ""
    ELSE IF Len(ps) = 1 THEN ps[1]
    ELSE ps[1] \o ":" \o JoinColon(Tail(ps))

\* word.split(':', 1)[1]
WordValue(w) == JoinColon(Tail(w))

\* sum(seq)
RECURSIVE SumSeq(_)
SumSeq(s) == IF s = <<>> THEN 0 ELSE s[1] + SumSeq(Tail(s))

(***************************************************************************)
(* Run identity.                                                           *)
(***************************************************************************)
\* an identity that writes the value of every field, masked or not
UidWordUnmasked(metadata, fields_to_combine, i) == <<KeyName[i], PyStr(metadata[i])>>

\* one ' key:value' appended to the identity, '-1' for a masked field
UidWord(metadata, fields_to_combine, i) ==
    IF KeyName[i] \notin fields_to_combine
    THEN <<KeyName[i], PyStr(metadata[i])>>
    ELSE <<KeyName[i], "-1">>

run_uid_from_metadata_ignoring_fields(metadata, fields_to_combine) ==
    <<(<<"[DATA]">>)>> \o [i \in 1 .. MI_MAX |-> UidWord(metadata, fields_to_combine, i)]

run_uid_from_metadata(metadata) ==
    run_uid_from_metadata_ignoring_fields(metadata, {})

\* uid += suffix: the suffix lands on the last piece of the last word
StrAppend(uid, suffix) ==
    LET n == Len(uid)
        w == uid[n]
    IN  [uid EXCEPT ![n] = [w EXCEPT ![Len(w)] = w[Len(w)] \o suffix]]

(***************************************************************************)
(* Dictionaries are functions; {} is the function with the empty domain.   *)
(***************************************************************************)
EmptyDict == [k \in {} |-> 0]

\* h[k] += v, with h[k] first set to 0 when k is new
DictAdd(h, k, v) ==
    IF k \in DOMAIN h THEN [h EXCEPT ![k] = @ + v] ELSE (k :> v) @@ h

\* raw_histogram[n][0] += re_count; raw_histogram[n][1] += ue_count
RawAdd(h, n, rc, uc) ==
    IF n \in DOMAIN h
    THEN [h EXCEPT ![n] = <<@[1] + rc, @[2] + uc>>]
    ELSE (n :> <<rc, uc>>) @@ h

\* sum(h.values())
RECURSIVE SumValues(_)
SumValues(h) ==
    IF DOMAIN h = {} THEN 0
    ELSE LET k == CHOOSE x \in DOMAIN h : TRUE
         IN  h[k] + SumValues([x \in DOMAIN h \ {k} |-> h[x]])

\* a rate whose numerator counts the words instead of their errors
SumUnweighted(h) == SumValues(h)

\* sum([n_errs * count for n_errs, count in h.items()])
RECURSIVE SumWeighted(_)
SumWeighted(h) ==
    IF DOMAIN h = {} THEN 0
    ELSE LET k == CHOOSE x \in DOMAIN h : TRUE
         IN  k * h[k] + SumWeighted([x \in DOMAIN h \ {k} |-> h[x]])

(***************************************************************************)
(* The histogram fold of an N_ERRORS_PER_BURST payload.  env says whether  *)
(* the names bl, bcl and ps are bound where the fold runs, and to what.    *)
(***************************************************************************)
NoEnv == [bound |-> FALSE, bl |-> 0, bcl |-> 0, ps |-> 0]
BoundEnv(bl, bcl, ps) == [bound |-> TRUE, bl |-> bl, bcl |-> bcl, ps |-> ps]

FoldRaise(e) ==
    [st |-> "raise", exc |-> e, raw |-> EmptyDict, re |-> EmptyDict, ue |-> EmptyDict]

\* n_errs, re_count, ue_count = map(int, entry.split(':')) succeeds
TripleOk(e) == Len(e) = 3 /\ \A i \in 1 .. 3 : IsIntText(e[i])

RECURSIVE FoldTriples(_, _, _)
FoldTriples(data, env, acc) ==
    IF data = <<>>
    THEN [st |-> "ok", exc |-> "", raw |-> acc.raw, re |-> acc.re, ue |-> acc.ue]
    ELSE LET e == Head(data) IN
         IF ~TripleOk(e) THEN FoldRaise("ValueError")
         ELSE LET n == PyInt(e[1])
                  rc == PyInt(e[2])
                  uc == PyInt(e[3])
              IN  IF rc > 0 /\ ~env.bound THEN FoldRaise("NameError")
                  ELSE IF rc > 0 /\ ~(n <= env.bcl) THEN FoldRaise("AssertionError")
                  ELSE IF uc > 0 /\ ~env.bound THEN FoldRaise("NameError")
                  ELSE IF uc > 0 /\ ~(n <= env.bl) THEN FoldRaise("AssertionError")
                  ELSE FoldTriples(Tail(data), env,
                           [raw |-> RawAdd(acc.raw, n, rc, uc),
                            re |-> IF rc > 0 THEN DictAdd(acc.re, n, rc) ELSE acc.re,
                            ue |-> IF uc > 0 THEN DictAdd(acc.ue, n, uc) ELSE acc.ue])

\* a float as the fraction num / den; -1.0 is <<-1, 1>>
Frac(num, den) == <<num, den>>

\* rber_calculated and uber_calculated from the final histograms
RateRaise(e) == [st |-> "raise", exc |-> e, rber |-> Frac(0, 1), uber |-> Frac(0, 1)]
Rates(re, ue, env) ==
    IF re # EmptyDict /\ ~env.bound THEN RateRaise("NameError")
    ELSE IF re # EmptyDict /\ (env.bcl - env.ps) * SumValues(re) = 0
    THEN RateRaise("ZeroDivisionError")
    ELSE IF ~env.bound THEN RateRaise("NameError")
    ELSE IF env.bl * SumValues(ue) = 0 THEN RateRaise("ZeroDivisionError")
    ELSE [st |-> "ok", exc |-> "",
          rber |-> IF re # EmptyDict
                   THEN Frac(SumWeighted(re), (env.bcl - env.ps) * SumValues(re))
                   ELSE Frac(-1, 1),
          uber |-> Frac(SumWeighted(ue), env.bl * SumValues(ue))]

(***************************************************************************)
(* Line parser.                                                            *)
(***************************************************************************)
\* the result of one call: a record, None, or an exception
Raise(e) == [st |-> "raise", exc |-> e, warn |-> FALSE, rec |-> NoneV]
RetNone(w) == [st |-> "none", exc |-> "", warn |-> w, rec |-> NoneV]
RetRec(r) == [st |-> "rec", exc |-> "", warn |-> FALSE, rec |-> r]

\* metadata_extracted = dict([i.split(':', 1) for i in meta_split[0:-1]])
HasKey(meta, k) == \E i \in DOMAIN meta : meta[i][1] = k
LastOf(meta, k) ==
    CHOOSE i \in DOMAIN meta :
        meta[i][1] = k /\ \A j \in DOMAIN meta : j > i => meta[j][1] # k
Extracted(meta, k) == WordValue(meta[LastOf(meta, k)])

\* the five numeric slots are read with int()
IsIntSlot(i) == i <= MI_PS + 1
IntSlotsOk(meta) ==
    \A i \in 1 .. MI_MAX :
        (IsIntSlot(i) /\ HasKey(meta, KeyName[i])) => IsIntText(Extracted(meta, KeyName[i]))

\* metadata[MI_x] = -1 if key not in metadata_extracted else ...
MetaSlot(meta, i) ==
    IF ~HasKey(meta, KeyName[i]) THEN IntV(-1)
    ELSE IF IsIntSlot(i) THEN IntV(PyInt(Extracted(meta, KeyName[i])))
    ELSE StrV(Extracted(meta, KeyName[i]))

ExtractMetadata(meta) == [i \in 1 .. MI_MAX |-> MetaSlot(meta, i)]

\* number of ':' characters in a run of words
ColonCount(ws) == SumSeq([i \in DOMAIN ws |-> Len(ws[i]) - 1])

NonEmptyText(x) == x # ""

\* [int(i) for i in text.split(' ') if i]
IntListOk(texts) == \A i \in DOMAIN texts : texts[i] # "" => IsIntText(texts[i])
IntList(texts) ==
    LET kept == SelectSeq(texts, NonEmptyText)
    IN  [i \in DOMAIN kept |-> PyInt(kept[i])]

\* the PER_BIT_ERROR_COUNT payload: raw_pre, raw_post = raw_data.split(':')
ParsePerBit(payload) ==
    IF ColonCount(payload) # 1 THEN [st |-> "raise", pre |-> <<>>, post |-> <<>>]
    ELSE LET j == CHOOSE i \in DOMAIN payload : Len(payload[i]) = 2
             pre == [i \in 1 .. j |-> payload[i][1]]
             post0 == <<payload[j][2]>>
                      \o [i \in 1 .. (Len(payload) - j) |-> payload[j + i][1]]
             post == [post0 EXCEPT ![Len(post0)] = ChopLast(@)]
         IN  IF IntListOk(pre) /\ IntListOk(post)
             THEN [st |-> "ok", pre |-> IntList(pre), post |-> IntList(post)]
             ELSE [st |-> "raise", pre |-> <<>>, post |-> <<>>]

\* the N_ERRORS_PER_BURST payload; bl, bcl and ps are not names of the parser
ParseNErrors(payload) ==
    LET data == SelectSeq(payload, LAMBDA w : Len(w) >= 2)
        fold == FoldTriples(data, NoEnv,
                            [raw |-> EmptyDict, re |-> EmptyDict, ue |-> EmptyDict])
        rates == Rates(fold.re, fold.ue, NoEnv)
    IN  IF fold.st = "raise" THEN [st |-> "raise", exc |-> fold.exc, obs |-> NoneV]
        ELSE IF rates.st = "raise" THEN [st |-> "raise", exc |-> rates.exc, obs |-> NoneV]
        ELSE [st |-> "ok", exc |-> "",
              obs |-> [rber |-> rates.rber, uber |-> rates.uber, re_data |-> fold.re,
                       ue_data |-> fold.ue, raw_data |-> fold.raw]]

BracketAt(rest) == {i \in DOMAIN rest : rest[i] = <<"[">>}

parse_einsim_output_line(line, fields_to_combine, is_experimental) ==
    IF ~(Len(line) >= 1 /\ line[1] = <<"[DATA]">>) THEN RetNone(FALSE)
    ELSE
    LET rest == Tail(line) IN
    IF Cardinality(BracketAt(rest)) # 1 THEN Raise("ValueError")
    ELSE
    LET b == CHOOSE i \in BracketAt(rest) : TRUE
        meta == SubSeq(rest, 1, b - 1)
        payload == SubSeq(rest, b + 1, Len(rest))
    IN
    IF \E i \in DOMAIN meta : Len(meta[i]) < 2 THEN Raise("ValueError")
    ELSE IF ~IntSlotsOk(meta) THEN Raise("ValueError")
    ELSE IF ~HasKey(meta, "obs") THEN Raise("AssertionError")
    ELSE
    LET metadata == ExtractMetadata(meta)
        obs == Extracted(meta, "obs")
        run_uid == run_uid_from_metadata(metadata)
        run_uid_ignoring_fields ==
            run_uid_from_metadata_ignoring_fields(metadata, fields_to_combine)
        parsed(o) == [metadata |-> metadata,
                      experiment_id |-> NoneV,
                      uid |-> run_uid,
                      uid_ignoring_fields |-> run_uid_ignoring_fields,
                      observations |-> (obs :> o)]
    IN
    \* experiment_id is assigned in this function, so it is a local name that
    \* is read before it has a value
    IF is_experimental THEN Raise("UnboundLocalError")
    ELSE IF obs \notin OBSERVABLES THEN RetNone(TRUE)
    ELSE IF obs = OBS_N_ERRORS_PER_BURST
    THEN LET r == ParseNErrors(payload)
         IN  IF r.st = "raise" THEN Raise(r.exc) ELSE RetRec(parsed(r.obs))
    ELSE LET r == ParsePerBit(payload)
         IN  IF r.st = "raise" THEN Raise("ValueError")
             ELSE RetRec(parsed([hist_databurst |-> r.pre, hist_codeburst |-> r.post]))

(***************************************************************************)
(* Input lines the model reads.                                            *)
(***************************************************************************)
DATA == <<"[DATA]">>
ECC == <<"[ECC]">>
LB == <<"[">>
RB == <<"]">>
COLON == <<"", "">>
PBIT == <<"obs", OBS_PER_BIT_ERROR_COUNT>>
NERR == <<"obs", OBS_N_ERRORS_PER_BURST>>

\* hello
L_other == <<(<<"hello">>)>>
\* [ECC] {"uid":3}
L_ecc == <<ECC, <<"{\"uid\":3}">> >>
\* [ECC] {}
L_ecc_empty == <<ECC, <<"{}">> >>
\* [ECC] {bad
L_ecc_bad == <<ECC, <<"{bad">> >>
\* [DATA] uid:1 nw:5 bl:4 bcl:8 ps:0 obs:PER_BIT_ERROR_COUNT [ 1 2 : 3 4 5 ]
L_pbit == <<DATA, <<"uid", "1">>, <<"nw", "5">>, <<"bl", "4">>, <<"bcl", "8">>,
            <<"ps", "0">>, PBIT, LB, <<"1">>, <<"2">>, COLON, <<"3">>, <<"4">>,
            <<"5">>, RB>>
\* [DATA] uid:1 nw:5 bl:4 bcl:9 ps:0 obs:PER_BIT_ERROR_COUNT [ 0 1 : 1 0 2 ]
L_pbit2 == <<DATA, <<"uid", "1">>, <<"nw", "5">>, <<"bl", "4">>, <<"bcl", "9">>,
             <<"ps", "0">>, PBIT, LB, <<"0">>, <<"1">>, COLON, <<"1">>, <<"0">>,
             <<"2">>, RB>>
\* [DATA] uid:1 nw:5 bl:5 bcl:8 ps:0 obs:PER_BIT_ERROR_COUNT [ 2 0 : 0 1 1 ]
L_pbit_bl5 == <<DATA, <<"uid", "1">>, <<"nw", "5">>, <<"bl", "5">>, <<"bcl", "8">>,
                <<"ps", "0">>, PBIT, LB, <<"2">>, <<"0">>, COLON, <<"0">>, <<"1">>,
                <<"1">>, RB>>
\* [DATA] uid:1 nw:5 bl:4 bcl:8 ps:0 obs:PER_BIT_ERROR_COUNT [ 1 : 2 ]
L_pbit_short == <<DATA, <<"uid", "1">>, <<"nw", "5">>, <<"bl", "4">>, <<"bcl", "8">>,
                  <<"ps", "0">>, PBIT, LB, <<"1">>, COLON, <<"2">>, RB>>
\* [DATA] uid:1 nw:5 bl:4 bcl:8 ps:0 obs:PER_BIT_ERROR_COUNT [ : ]  (no positions)
L_pbit_empty == <<DATA, <<"uid", "1">>, <<"nw", "5">>, <<"bl", "4">>, <<"bcl", "8">>,
                  <<"ps", "0">>, PBIT, LB, COLON, RB>>
\* [DATA] uid:1 bl:4 bcl:8 ps:0 obs:PER_BIT_ERROR_COUNT [ 1 1 : 0 0 1 ]  (nw unknown)
L_pbit_nonw == <<DATA, <<"uid", "1">>, <<"bl", "4">>, <<"bcl", "8">>, <<"ps", "0">>,
                 PBIT, LB, <<"1">>, <<"1">>, COLON, <<"0">>, <<"0">>, <<"1">>, RB>>
\* [DATA] uid:1 nw:5 bl:4 bcl:8 ps:0 obs:N_ERRORS_PER_BURST [ 1:1:1 2:0:2 ]
L_nerr2 == <<DATA, <<"uid", "1">>, <<"nw", "5">>, <<"bl", "4">>, <<"bcl", "8">>,
             <<"ps", "0">>, NERR, LB, <<"1", "1", "1">>, <<"2", "0", "2">>, RB>>
\* [DATA] uid:1 nw:5 bl:4 bcl:8 ps:0 obs:N_ERRORS_PER_BURST [ 0:3:4 1:2:0 ]
L_nerr == <<DATA, <<"uid", "1">>, <<"nw", "5">>, <<"bl", "4">>, <<"bcl", "8">>,
            <<"ps", "0">>, NERR, LB, <<"0", "3", "4">>, <<"1", "2", "0">>, RB>>
\* [DATA] uid:1 bl:1 bcl:1 obs:N_ERRORS_PER_BURST [ 0:0:0 2:1:0 ]  (2 errors in 1 bit)
L_nerr_over == <<DATA, <<"uid", "1">>, <<"bl", "1">>, <<"bcl", "1">>, NERR, LB,
                 <<"0", "0", "0">>, <<"2", "1", "0">>, RB>>
\* [DATA] uid:1 bl:4 obs:N_ERRORS_PER_BURST [ 0:1 ]
L_nerr_pair == <<DATA, <<"uid", "1">>, <<"bl", "4">>, NERR, LB, <<"0", "1">>, RB>>
\* [DATA] uid:1 bl:x obs:PER_BIT_ERROR_COUNT [ 1 : 2 ]
L_badint == <<DATA, <<"uid", "1">>, <<"bl", "x">>, PBIT, LB, <<"1">>, COLON,
              <<"2">>, RB>>
\* [DATA] REP: uid:1 bl:4 [ 1 : 2 ]
L_noobs == <<DATA, <<"REP", "">>, <<"uid", "1">>, <<"bl", "4">>, LB, <<"1">>, COLON,
             <<"2">>, RB>>
\* [DATA] uid:1 bl:4 obs:FOO [ 1 : 2 ]
L_unknown == <<DATA, <<"uid", "1">>, <<"bl", "4">>, <<"obs", "FOO">>, LB, <<"1">>,
               COLON, <<"2">>, RB>>

\* a line of the positional format, as recorded in a simulation log:
\* [DATA] REP: p:584576191 t:1 k:4 n:12 rber:1e-06 bl:256 bcl:768 ps:0
\*        ed:UNIFORM_RANDOM cd:ALL_TRUE_OR_ALL_ANTI dp:RANDOM [ 0:9998:10000 1:2:0 ]
LG_example ==
    <<DATA, <<"REP", "">>, <<"p", "584576191">>, <<"t", "1">>, <<"k", "4">>,
      <<"n", "12">>, <<"rber", "1e-06">>, <<"bl", "256">>, <<"bcl", "768">>,
      <<"ps", "0">>, <<"ed", "UNIFORM_RANDOM">>, <<"cd", "ALL_TRUE_OR_ALL_ANTI">>,
      <<"dp", "RANDOM">>, LB, <<"0", "9998", "10000">>, <<"1", "2", "0">>, RB>>

\* the lines a file may hold
LinePool == {L_other, L_ecc, L_ecc_bad, L_pbit, L_pbit2, L_nerr, L_nerr_over,
             L_nerr_pair, L_badint, L_noobs, L_unknown, LG_example, L_ecc_empty}

\* json.loads(text): the decoded object, or an exception
JsonValid(text) == text \in {"{\"uid\":3}", "{}"}
\* a decoder that drops the fields of the object
JsonLoadsEmpty(text) == EmptyDict
JsonLoads(text) == IF text = "{\"uid\":3}" THEN ("uid" :> 3) ELSE EmptyDict

\* the fields_to_combine lists the scripts are run with
MaskChoices == {{}, {"bcl"}, {"bl", "obs"}}

(***************************************************************************)
(* Streaming file reducer: parse_files_incremental, with the callback of   *)
(* aggregate_output.py.                                                    *)
(***************************************************************************)
\* the files of one run, in the order given
infilenames == <<"a.txt", "b.txt.gz">>

VARIABLES
    is_experimental,    \* argument of parse_files_incremental
    fields_to_combine,  \* argument of parse_files_incremental
    pc,                 \* "run", "done" (returned), "indexed" (the descriptors are
                        \* indexed by uid) or "abort" (an exception left the run)
    abort_exc,          \* the exception that left the reducer, "" if none
    infile,             \* index in infilenames of the file being read
    line_num,           \* lines read from the current file
    malformed_line,     \* line of the first malformed line of the file, or -1
    ecc_code,           \* the local handed to the callback
    ecc_codes,          \* filename -> decoded [ECC] descriptor
    experiment_id,      \* the reducer's local counter
    calls,              \* callback invocations, in order
    n_warnings,         \* malformed-line warnings printed, per file index
    n_raised,           \* history: lines whose parsing raised, per file index
    last_line,          \* history: the line read last
    last_exc,           \* history: the exception raised while handling it, or ""
    lines_read,         \* history: lines read so far, over all files
    parsed_at           \* history: <<file, line number, line>> of every line
                        \* for which the parser returned a record

reducer_vars == <<is_experimental, fields_to_combine, pc, abort_exc, infile, line_num,
                  malformed_line, ecc_code, ecc_codes, experiment_id, calls,
                  n_warnings, n_raised, last_line, last_exc, lines_read, parsed_at>>

\* a reader that prints the warning for every malformed line
EveryMalformed(malformed) == TRUE

\* `if malformed_line == -1:` no line of this file has been reported yet
FirstMalformed(malformed) == malformed = -1

\* a reducer that takes every parser result for a record
TruthyAlways(v) == TRUE

\* `if parsed_data:` a dict is true when it has a key, None is false
Truthy(v) == v # NoneV /\ DOMAIN v # {}

\* line.startswith('[ECC]')
StartsWithEcc(line) == Len(line) >= 1 /\ line[1] = ECC

\* line[6:] of an [ECC] line
EccPayload(line) == IF Len(line) >= 2 THEN line[2][1] ELSE ""

\* parsed_data = parse_einsim_output_line(line, fields_to_combine, is_experimental),
\* for each line that can be read
parsed_data_of ==
    [l \in LinePool, m \in MaskChoices, e \in BOOLEAN |->
        parse_einsim_output_line(l, m, e)]

ReducerInit ==
    /\ is_experimental \in BOOLEAN
    /\ fields_to_combine \in MaskChoices
    /\ pc = "run"
    /\ abort_exc = ""
    /\ infile = 1
    /\ line_num = 0
    /\ malformed_line = -1
    /\ ecc_code = NoneV
    /\ ecc_codes = EmptyDict
    /\ experiment_id = 0
    /\ calls = <<>>
    /\ n_warnings = [f \in DOMAIN infilenames |-> 0]
    /\ n_raised = [f \in DOMAIN infilenames |-> 0]
    /\ last_line = <<>>
    /\ last_exc = ""
    /\ lines_read = 0
    /\ parsed_at = <<>>

\* one iteration of `while line:` on the line just read
ReadLine(line) ==
    /\ pc = "run"
    /\ lines_read < MaxLines
    /\ lines_read' = lines_read + 1
    /\ LET r == parsed_data_of[line, fields_to_combine, is_experimental]
           parsed_data == IF r.st = "rec" THEN r.rec ELSE NoneV
           warns == r.st = "raise" /\ FirstMalformed(malformed_line)
           json_fails == ~Truthy(parsed_data) /\ StartsWithEcc(line)
                         /\ ~JsonValid(EccPayload(line))
       IN  /\ line_num' = line_num + 1
           /\ malformed_line' = IF warns THEN line_num + 1 ELSE malformed_line
           /\ n_warnings' = IF warns THEN [n_warnings EXCEPT ![infile] = @ + 1]
                            ELSE n_warnings
           /\ n_raised' = IF r.st = "raise" THEN [n_raised EXCEPT ![infile] = @ + 1]
                          ELSE n_raised
           /\ calls' = IF Truthy(parsed_data)
                       THEN Append(calls, [file |-> infile, line |-> line_num + 1,
                                           data |-> parsed_data, ecc |-> ecc_code])
                       ELSE calls
           /\ ecc_codes' = IF ~Truthy(parsed_data) /\ StartsWithEcc(line)
                              /\ JsonValid(EccPayload(line))
                           THEN (infilenames[infile] :> JsonLoads(EccPayload(line)))
                                @@ ecc_codes
                           ELSE ecc_codes
           /\ pc' = IF json_fails THEN "abort" ELSE "run"
           /\ abort_exc' = IF json_fails THEN "JSONDecodeError" ELSE ""
           /\ last_line' = line
           /\ last_exc' = IF r.st = "raise" THEN r.exc
                          ELSE IF json_fails THEN "JSONDecodeError" ELSE ""
           /\ parsed_at' = IF r.st = "rec"
                           THEN Append(parsed_at, <<infile, line_num + 1, line>>)
                           ELSE parsed_at
    /\ UNCHANGED <<is_experimental, fields_to_combine, infile, ecc_code, experiment_id>>

\* `except KeyboardInterrupt: raise` while a line is being parsed
Interrupted(line) ==
    /\ pc = "run"
    /\ lines_read < MaxLines
    /\ lines_read' = lines_read + 1
    /\ line_num' = line_num + 1
    /\ pc' = "abort"
    /\ abort_exc' = "KeyboardInterrupt"
    /\ last_line' = line
    /\ last_exc' = "KeyboardInterrupt"
    /\ UNCHANGED <<is_experimental, fields_to_combine, infile, malformed_line, ecc_code,
                   ecc_codes, experiment_id, calls, n_warnings, n_raised, parsed_at>>

\* readline() returns '' and the next file is opened
NextFile ==
    /\ pc = "run"
    /\ infile < Len(infilenames)
    /\ infile' = infile + 1
    /\ line_num' = 0
    /\ malformed_line' = -1
    /\ ecc_code' = NoneV
    /\ last_line' = <<>>
    /\ last_exc' = ""
    /\ UNCHANGED <<is_experimental, fields_to_combine, pc, abort_exc, ecc_codes,
                   experiment_id, calls, n_warnings, n_raised, lines_read, parsed_at>>

\* the last file is exhausted: return ecc_codes
Return ==
    /\ pc = "run"
    /\ infile = Len(infilenames)
    /\ pc' = "done"
    /\ last_line' = <<>>
    /\ last_exc' = ""
    /\ UNCHANGED <<is_experimental, fields_to_combine, abort_exc, infile, line_num,
                   malformed_line, ecc_code, ecc_codes, experiment_id, calls,
                   n_warnings, n_raised, lines_read, parsed_at>>

\* aggregate_einsim_results, once the reducer has returned: ecc_codes_by_uid is
\* built from ecc_codes[code]['uid'] of every file with a descriptor
IndexEccCodes ==
    /\ pc = "done"
    /\ ~is_experimental
    /\ IF \E code \in DOMAIN ecc_codes : "uid" \notin DOMAIN ecc_codes[code]
       THEN pc' = "abort" /\ abort_exc' = "KeyError"
       ELSE pc' = "indexed" /\ abort_exc' = ""
    /\ UNCHANGED <<is_experimental, fields_to_combine, infile, line_num, malformed_line,
                   ecc_code, ecc_codes, experiment_id, calls, n_warnings, n_raised, last_line,
                   last_exc, lines_read, parsed_at>>

(***************************************************************************)
(* Run combiner.                                                           *)
(***************************************************************************)
CombRaise(e, who) == [st |-> "raise", exc |-> e, culprit |-> who, run |-> NoneV]
ElemRaise(e) == [st |-> "raise", exc |-> e, val |-> NoneV]
ElemOk(v) == [st |-> "ok", exc |-> "", val |-> v]

\* "text" + v is a TypeError unless v is a str
ConcatOk(v) == v.t = "str"

\* all_elem = {run['metadata'][elem] for run in data}
AllElem(data, elem) == {data[j].metadata[elem + 1] : j \in DOMAIN data}

\* a combiner that marks a mismatch where it has to fail
combine_metadata_element_marking(data, elem, mixed_pass, mixed_warn, mixed_error) ==
    LET all_elem == AllElem(data, elem) IN
    IF Cardinality(all_elem) > 1
    THEN IF mixed_error # NoneV THEN ElemOk(mixed_error)
         ELSE IF mixed_warn # NoneV THEN ElemRaise("TypeError")
         ELSE IF mixed_pass # NoneV THEN ElemOk(mixed_pass)
         ELSE ElemRaise("AssertionError")
    ELSE ElemOk(CHOOSE v \in all_elem : TRUE)

combine_metadata_element(data, elem, mixed_pass, mixed_warn, mixed_error) ==
    LET all_elem == AllElem(data, elem) IN
    IF Cardinality(all_elem) > 1
    THEN IF mixed_error # NoneV
         THEN \* print("[ERROR] ... " + elem + ":", all_elem), then assert False
              IF ConcatOk(IntV(elem)) THEN ElemRaise("AssertionError")
              ELSE ElemRaise("TypeError")
         ELSE IF mixed_warn # NoneV
         THEN \* print("[WARN] ... " + elem + " - ..." + str(ifmixed)); return mixed_warn
              IF ConcatOk(IntV(elem)) THEN ElemRaise("NameError")
              ELSE ElemRaise("TypeError")
         ELSE IF mixed_pass # NoneV THEN ElemOk(mixed_pass)
         ELSE ElemRaise("AssertionError")
    ELSE ElemOk(CHOOSE v \in all_elem : TRUE)

ObsRaise(e) == [st |-> "raise", exc |-> e, val |-> NoneV]
ObsOk(v) == [st |-> "ok", exc |-> "", val |-> v]

\* the N_ERRORS_PER_BURST branch: `for n_errs, re_count, ue_count in
\* run_data['raw_data']` iterates the keys of the dictionary, which are ints
RECURSIVE CombineNErrors(_, _)
CombineNErrors(observable, runs) ==
    IF runs = <<>>
    THEN \* nothing was folded: re_histogram is empty, and uber reads bl
         LET rates == Rates(EmptyDict, EmptyDict, NoEnv)
         IN  IF rates.st = "raise" THEN ObsRaise(rates.exc)
             ELSE ObsOk([rber |-> rates.rber, uber |-> rates.uber,
                         re_data |-> EmptyDict, ue_data |-> EmptyDict,
                         raw_data |-> EmptyDict])
    ELSE LET run == Head(runs) IN
         IF observable \notin DOMAIN run.observations THEN ObsRaise("KeyError")
         ELSE IF DOMAIN run.observations[observable].raw_data # {}
         THEN ObsRaise("TypeError")
         ELSE CombineNErrors(observable, Tail(runs))

\* the PER_BIT_ERROR_COUNT branch, with the two lists built so far
RECURSIVE CombinePerBit(_, _, _, _)
CombinePerBit(observable, runs, bit_hist_databurst, bit_hist_codeburst) ==
    IF runs = <<>>
    THEN ObsOk([hist_databurst |-> bit_hist_databurst,
                hist_codeburst |-> bit_hist_codeburst])
    ELSE LET run == Head(runs) IN
         IF observable \notin DOMAIN run.observations THEN ObsRaise("KeyError")
         ELSE
         LET a == run.observations[observable] IN
         IF bit_hist_databurst # <<>> \/ bit_hist_codeburst # <<>>
         THEN IF Len(bit_hist_databurst) # Len(a.hist_databurst)
                 \/ Len(bit_hist_codeburst) # Len(a.hist_codeburst)
              THEN ObsRaise("AssertionError")
              ELSE CombinePerBit(observable, Tail(runs),
                       [i \in DOMAIN bit_hist_databurst |->
                            bit_hist_databurst[i] + a.hist_databurst[i]],
                       [i \in DOMAIN bit_hist_codeburst |->
                            bit_hist_codeburst[i] + a.hist_codeburst[i]])
         ELSE CombinePerBit(observable, Tail(runs), a.hist_databurst, a.hist_codeburst)

combine_observation(observable, runs) ==
    IF observable = OBS_N_ERRORS_PER_BURST THEN CombineNErrors(observable, runs)
    ELSE IF observable = OBS_PER_BIT_ERROR_COUNT
    THEN CombinePerBit(observable, runs, <<>>, <<>>)
    ELSE ObsRaise("AssertionError")

\* a check that starts one record too late
MismatchAfterSecond(data) ==
    {i \in 3 .. Len(data) : data[1].uid_ignoring_fields # data[i].uid_ignoring_fields}

\* the records after the first whose masked identity is not the first's
MismatchAt(data) ==
    {i \in 2 .. Len(data) : data[1].uid_ignoring_fields # data[i].uid_ignoring_fields}

combine_runs(data, fields_to_comb) ==
    IF MismatchAt(data) # {}
    THEN CombRaise("AssertionError", CHOOSE i \in MismatchAt(data) :
                                        \A j \in MismatchAt(data) : i <= j)
    ELSE
    LET m_uid == combine_metadata_element(data, MI_UID, IntV(-1), NoneV, NoneV)
        word_list == [j \in DOMAIN data |-> data[j].metadata[MI_NW + 1]]
        invalid_word_list == \E j \in DOMAIN word_list : word_list[j] = IntV(-1)
        m_nw == IF ~invalid_word_list
                THEN ElemOk(IntV(SumSeq([j \in DOMAIN word_list |-> word_list[j].i])))
                ELSE combine_metadata_element(data, MI_NW, IntV(-1), NoneV, NoneV)
        m_bl == combine_metadata_element(data, MI_BL, NoneV, NoneV, IntV(-1))
        m_bcl == combine_metadata_element(data, MI_BCL, NoneV, IntV(-1), NoneV)
        m_ps == combine_metadata_element(data, MI_PS, NoneV, IntV(-1), NoneV)
        m_em == combine_metadata_element(data, MI_EM, IntV(-1), NoneV, NoneV)
        m_cd == combine_metadata_element(data, MI_CD, IntV(-1), NoneV, NoneV)
        m_dp == combine_metadata_element(data, MI_DP, IntV(-1), NoneV, NoneV)
        m_cdp == combine_metadata_element(data, MI_CDP, IntV(-1), NoneV, NoneV)
        m_obs == combine_metadata_element(data, MI_OBS, NoneV, NoneV, IntV(-1))
        elems == <<m_uid, m_nw, m_bl, m_bcl, m_ps, m_em, m_cd, m_dp, m_cdp, m_obs>>
        failed == {i \in DOMAIN elems : elems[i].st = "raise"}
    IN
    IF failed # {}
    THEN CombRaise(elems[CHOOSE i \in failed : \A j \in failed : i <= j].exc, 0)
    ELSE
    LET metadata == [i \in 1 .. MI_MAX |-> elems[i].val]
        \* `run` is the variable of the loops at lines 233 and 266
        run_bound == Len(data) >= 2 \/ ~invalid_word_list
        run == data[Len(data)]
    IN
    IF ~run_bound THEN CombRaise("UnboundLocalError", 0)
    ELSE
    LET observables == DOMAIN run.observations
        combined == [o \in observables |-> combine_observation(o, data)]
        bad == {o \in observables : combined[o].st = "raise"}
    IN
    IF bad # {} THEN CombRaise(combined[CHOOSE o \in bad : TRUE].exc, 0)
    ELSE [st |-> "ok", exc |-> "", culprit |-> 0,
          run |-> [metadata |-> metadata,
                   experiment_id |-> IntV(-1),
                   uid |-> run_uid_from_metadata(metadata),
                   uid_ignoring_fields |->
                       run_uid_from_metadata_ignoring_fields(metadata, fields_to_comb),
                   observations |-> [o \in observables |-> combined[o].val]]]

(***************************************************************************)
(* The list objects combine_runs works on.  A list is named by the record  *)
(* that holds it (0 for the lists combine_observation creates) and its     *)
(* key; `lists` gives the content of every list.                           *)
(***************************************************************************)
PerBitKeys == {"hist_databurst", "hist_codeburst"}

\* the lists of the records handed to combine_runs
InputLists(data) ==
    [id \in {<<j, k>> : j \in {i \in DOMAIN data :
                                  OBS_PER_BIT_ERROR_COUNT \in DOMAIN data[i].observations},
                        k \in PerBitKeys}
        |-> data[id[1]].observations[OBS_PER_BIT_ERROR_COUNT][id[2]]]

\* bit_hist_databurst = [] and bit_hist_codeburst = [] (lines 210-211)
NewLists(lists) == (<<0, "hist_databurst">> :> <<>>) @@ (<<0, "hist_codeburst">> :> <<>>) @@ lists

\* an accumulator that is the input's own list
AliasList(lists, dst, src) == [lists |-> lists, ref |-> src]

\* for i in range(len(a[k])): bit_hist.append(a[k][i])
AppendAll(lists, dst, src) ==
    [lists |-> [lists EXCEPT ![dst] = lists[dst] \o lists[src]], ref |-> dst]

\* for i in range(len(bit_hist)): bit_hist[i] += a[k][i], one element after another
RECURSIVE AddInPlace(_, _, _, _)
AddInPlace(lists, dst, src, i) ==
    IF i > Len(lists[dst]) THEN lists
    ELSE AddInPlace([lists EXCEPT ![dst][i] = lists[dst][i] + lists[src][i]], dst, src, i + 1)

\* the PER_BIT_ERROR_COUNT branch of combine_observation on the list objects,
\* from record j on; db and cb name the two accumulators
RECURSIVE PerBitOnLists(_, _, _, _, _)
PerBitOnLists(data, j, lists, db, cb) ==
    IF j > Len(data) THEN [st |-> "ok", lists |-> lists, db |-> db, cb |-> cb]
    ELSE IF OBS_PER_BIT_ERROR_COUNT \notin DOMAIN data[j].observations
    THEN [st |-> "raise", lists |-> lists, db |-> db, cb |-> cb]
    ELSE IF lists[db] # <<>> \/ lists[cb] # <<>>
    THEN IF Len(lists[db]) # Len(lists[<<j, "hist_databurst">>])
            \/ Len(lists[cb]) # Len(lists[<<j, "hist_codeburst">>])
         THEN [st |-> "raise", lists |-> lists, db |-> db, cb |-> cb]
         ELSE LET l1 == AddInPlace(lists, db, <<j, "hist_databurst">>, 1)
                  l2 == AddInPlace(l1, cb, <<j, "hist_codeburst">>, 1)
              IN  PerBitOnLists(data, j + 1, l2, db, cb)
    ELSE LET r1 == AppendAll(lists, db, <<j, "hist_databurst">>)
             r2 == AppendAll(r1.lists, cb, <<j, "hist_codeburst">>)
         IN  PerBitOnLists(data, j + 1, r2.lists, r1.ref, r2.ref)

\* the records without their observations: what combine_runs reads before line 285
WithoutObservations(data) == [j \in DOMAIN data |-> [data[j] EXCEPT !.observations = EmptyDict]]

\* the list objects after combine_runs(data, fields_to_comb); nothing before
\* line 285 touches a list, and the N_ERRORS_PER_BURST branch fails on its
\* first entry or at the rates, with dictionaries of its own
ListsAfterCombine(data, fields_to_comb) ==
    IF /\ combine_runs(WithoutObservations(data), fields_to_comb).st = "ok"
          \/ Len(data) >= 2
          \/ data[1].metadata[MI_NW + 1] # IntV(-1)
       /\ OBS_PER_BIT_ERROR_COUNT \in DOMAIN data[Len(data)].observations
    THEN PerBitOnLists(data, 1, NewLists(InputLists(data)),
                       <<0, "hist_databurst">>, <<0, "hist_codeburst">>)
    ELSE [st |-> "none", lists |-> InputLists(data), db |-> <<>>, cb |-> <<>>]

(***************************************************************************)
(* Output serialiser.                                                      *)
(***************************************************************************)
OutRaise(e) == [st |-> "raise", exc |-> e, lines |-> <<>>]

\* str(i) + ' ' for every i of a list
NumberWords(xs) == [i \in DOMAIN xs |-> <<ToString(xs[i])>>]

\* the line written for one observable; `val` is not a name of the function
OutputLine(raw_data, observable) ==
    LET head == Append(raw_data.uid, <<"obs", observable>>) IN
    IF observable = OBS_N_ERRORS_PER_BURST THEN [st |-> "raise", exc |-> "NameError", line |-> <<>>]
    ELSE IF observable = OBS_PER_BIT_ERROR_COUNT
    THEN [st |-> "ok", exc |-> "",
          line |-> head \o <<LB>>
                   \o NumberWords(raw_data.observations[observable].hist_databurst)
                   \o <<COLON>>
                   \o NumberWords(raw_data.observations[observable].hist_codeburst)
                   \o <<RB>>]
    ELSE [st |-> "ok", exc |-> "", line |-> head]

\* an order in which `for observable in raw_data['observations']` visits the keys
RECURSIVE SetToSeq(_)
SetToSeq(S) ==
    IF S = {} THEN <<>>
    ELSE LET x == CHOOSE y \in S : TRUE IN <<x>> \o SetToSeq(S \ {x})

get_output_string(raw_data) ==
    IF DOMAIN raw_data.observations = {} THEN OutRaise("AssertionError")
    ELSE LET order == SetToSeq(DOMAIN raw_data.observations)
             each == [i \in DOMAIN order |-> OutputLine(raw_data, order[i])]
             bad == {i \in DOMAIN each : each[i].st = "raise"}
         IN  IF bad # {} THEN OutRaise(each[CHOOSE i \in bad : TRUE].exc)
             ELSE [st |-> "ok", exc |-> "", lines |-> [i \in DOMAIN each |-> each[i].line]]

(***************************************************************************)
(* Records handed to combine_runs.                                         *)
(***************************************************************************)
\* the words before and after the '[' of a well-formed [DATA] line
MetaOf(line) ==
    LET rest == Tail(line)
        b == CHOOSE i \in BracketAt(rest) : TRUE
    IN  SubSeq(rest, 1, b - 1)
PayloadOf(line) ==
    LET rest == Tail(line)
        b == CHOOSE i \in BracketAt(rest) : TRUE
    IN  SubSeq(rest, b + 1, Len(rest))

\* the record the parser returns for a PER_BIT_ERROR_COUNT line
ParsedRun(line, mask) == parse_einsim_output_line(line, mask, FALSE).rec

\* an N_ERRORS_PER_BURST record of the shape the parser assembles (lines 107-154),
\* with bl, bcl and ps taken from the record's metadata
NErrorsRun(line, mask) ==
    LET metadata == ExtractMetadata(MetaOf(line))
        env == BoundEnv(metadata[MI_BL + 1].i, metadata[MI_BCL + 1].i,
                        metadata[MI_PS + 1].i)
        fold == FoldTriples(SelectSeq(PayloadOf(line), LAMBDA w : Len(w) >= 2), env,
                            [raw |-> EmptyDict, re |-> EmptyDict, ue |-> EmptyDict])
        rates == Rates(fold.re, fold.ue, env)
    IN  [metadata |-> metadata,
         experiment_id |-> NoneV,
         uid |-> run_uid_from_metadata(metadata),
         uid_ignoring_fields |-> run_uid_from_metadata_ignoring_fields(metadata, mask),
         observations |->
             (OBS_N_ERRORS_PER_BURST :>
                 [rber |-> rates.rber, uber |-> rates.uber, re_data |-> fold.re,
                  ue_data |-> fold.ue, raw_data |-> fold.raw])]

RunPool(mask) ==
    {ParsedRun(L_pbit, mask), ParsedRun(L_pbit2, mask), ParsedRun(L_pbit_bl5, mask),
     ParsedRun(L_pbit_short, mask), ParsedRun(L_pbit_nonw, mask),
     ParsedRun(L_pbit_empty, mask),
     NErrorsRun(L_nerr, mask), NErrorsRun(L_nerr2, mask)}

\* the non-empty lists of at most n records
RunLists(mask, n) == UNION {[1 .. k -> RunPool(mask)] : k \in 1 .. n}

(***************************************************************************)
(* aggregate_einsim_results, for one masked identity: combine the list,    *)
(* write the combined record, and read the written lines back.             *)
(***************************************************************************)
VARIABLES
    c_phase,    \* "idle", "init", "combined", "written" or "reparsed"
    c_data,     \* the list handed to combine_runs
    c_result,   \* what combine_runs returned or raised
    c_out,      \* what get_output_string returned or raised
    c_back,     \* the parser's result for every written line
    c_lists     \* the list objects after combine_runs, and the two lists of the result

combine_vars == <<c_phase, c_data, c_result, c_out, c_back, c_lists>>

CombineIdle ==
    /\ c_phase = "idle"
    /\ c_data = <<>>
    /\ c_result = NoneV
    /\ c_out = NoneV
    /\ c_back = <<>>
    /\ c_lists = NoneV

CombineInit ==
    /\ fields_to_combine \in MaskChoices
    /\ c_phase = "init"
    /\ c_data \in RunLists(fields_to_combine, MaxRuns)
    /\ c_result = NoneV
    /\ c_out = NoneV
    /\ c_back = <<>>
    /\ c_lists = NoneV

\* combined_data = utils.combine_runs(data, fields_to_combine)
CombineRuns ==
    /\ c_phase = "init"
    /\ c_result' = combine_runs(c_data, fields_to_combine)
    /\ c_lists' = ListsAfterCombine(c_data, fields_to_combine)
    /\ c_phase' = "combined"
    /\ UNCHANGED <<c_data, c_out, c_back>>

\* out_str = utils.get_output_string(combined_data)
WriteOutput ==
    /\ c_phase = "combined"
    /\ c_result.st = "ok"
    /\ c_out' = get_output_string(c_result.run)
    /\ c_phase' = "written"
    /\ UNCHANGED <<c_data, c_result, c_back, c_lists>>

\* the written lines are parsed again, as a later run of the script does
Reparse ==
    /\ c_phase = "written"
    /\ c_out.st = "ok"
    /\ c_back' = [i \in DOMAIN c_out.lines |->
                      parse_einsim_output_line(c_out.lines[i], fields_to_combine, FALSE)]
    /\ c_phase' = "reparsed"
    /\ UNCHANGED <<c_data, c_result, c_out, c_lists>>

(***************************************************************************)
(* Run identity resolver, applied to two metadata records.                 *)
(***************************************************************************)
VARIABLES
    u_md1,      \* a metadata record
    u_md2,      \* u_md1 with some fields changed
    u_changes,  \* number of changes made
    u_id1,      \* masked identity of u_md1
    u_id2       \* masked identity of u_md2

uid_vars == <<u_md1, u_md2, u_changes, u_id1, u_id2>>

\* the texts a field takes in the model's input lines
SlotTexts(i) ==
    IF IsIntSlot(i) THEN {"-1", "4", "5"}
    ELSE IF i = MI_OBS + 1 THEN {OBS_PER_BIT_ERROR_COUNT, OBS_N_ERRORS_PER_BURST}
    ELSE {"-1", "U"}

\* the values the parser stores for a field: absent, or present with a text
SlotValues(i) ==
    {MetaSlot(<<>>, i)} \cup {MetaSlot(<<(<<KeyName[i], x>>)>>, i) : x \in SlotTexts(i)}

UidMasks == {{}, {"bl"}, {"em"}, {"bl", "em", "obs"}}

UidIdle ==
    /\ u_md1 = <<>>
    /\ u_md2 = <<>>
    /\ u_changes = 0
    /\ u_id1 = <<>>
    /\ u_id2 = <<>>

UidInit ==
    /\ fields_to_combine \in UidMasks
    /\ u_md1 \in {ExtractMetadata(MetaOf(L_pbit)), ExtractMetadata(MetaOf(L_unknown))}
    /\ u_md2 = u_md1
    /\ u_changes = 0
    /\ u_id1 = run_uid_from_metadata_ignoring_fields(u_md1, fields_to_combine)
    /\ u_id2 = u_id1

\* one field of the second record takes another value and its identity is resolved
ChangeField(i, v) ==
    /\ u_changes < MaxChanges
    /\ u_md2[i] # v
    /\ u_md2' = [u_md2 EXCEPT ![i] = v]
    /\ u_changes' = u_changes + 1
    /\ u_id2' = run_uid_from_metadata_ignoring_fields(u_md2', fields_to_combine)
    /\ UNCHANGED <<u_md1, u_id1>>

(***************************************************************************)
(* The positional reader of script/utils.py, used by script/ein/ein.py and *)
(* script/aggregate_output.py.  A line names its ECC category first and    *)
(* its fields by position:                                                 *)
(*   [DATA] REP: p:1 t:1 k:4 n:12 rber:0.5 bl:4 bcl:8 ps:0 ed:U cd:A dp:R  *)
(*          [ 0:3:4 1:2:0 ]                                                *)
(***************************************************************************)
\* float(text) and str() of it, for the rber texts the model reads; "0.50" and
\* "0.5" are one float
FloatRepr ==
    [x \in {"0.5", "0.50", "0.25", "1e-06"} |-> IF x = "0.50" THEN "0.5" ELSE x]
IsFloatText(x) == x \in DOMAIN FloatRepr

\* meta_split[idx]: meta ends with a space, so the split has one more, empty,
\* element after the last word; idx counts from 0
HasElement(meta, idx) == idx <= Len(meta)
ElementAt(meta, idx) == IF idx < Len(meta) THEN meta[idx + 1] ELSE <<"">>

\* word[k:] for a word key:value whose key has k - 1 characters is the value;
\* the cut of any other word is no numeral
DropChars(w, k) ==
    IF w = <<"">> THEN ""
    ELSE IF Len(w) >= 2 /\ Len(w[1]) + 1 = k THEN JoinColon(Tail(w)) ELSE "?"

\* metadata = [ecc_category, p, t, k, n, m, rber, bl, bcl, ps, ed, cd, dp]
LegacyFields ==
    <<"ecc_category", "p", "t", "k", "n", "m", "rber", "bl", "bcl", "ps", "ed", "cd", "dp">>

\* the position (without the shift of BCH) and the prefix length of a field
FieldPos == [p |-> 1, t |-> 2, k |-> 3, n |-> 4, rber |-> 5, bl |-> 6, bcl |-> 7,
             ps |-> 8, ed |-> 9, cd |-> 10, dp |-> 11]
FieldCut == [p |-> 2, t |-> 2, k |-> 2, n |-> 2, rber |-> 5, bl |-> 3, bcl |-> 4,
             ps |-> 3, ed |-> 3, cd |-> 3, dp |-> 3]
IntFields == {"p", "t", "k", "n", "bl", "bcl", "ps"}
AfterM == {"rber", "bl", "bcl", "ps", "ed", "cd", "dp"}

\* ecc_category = meta_split[0][:-1]
EccCategory(meta) ==
    LET w == ElementAt(meta, 0)
    IN  IF Len(w) = 2 /\ w[2] = "" THEN w[1] ELSE "?"

\* the fields of one category are read in the order of LegacyFields; the first
\* one that cannot be read raises.  off is 1 when an m field precedes rber.
FieldText(meta, f, off) ==
    DropChars(ElementAt(meta, FieldPos[f] + (IF f \in AfterM THEN off ELSE 0)), FieldCut[f])
FieldError(meta, f, off) ==
    LET idx == FieldPos[f] + (IF f \in AfterM THEN off ELSE 0)
    IN  IF ~HasElement(meta, idx) THEN "IndexError"
        ELSE IF f \in IntFields /\ ~IsIntText(FieldText(meta, f, off)) THEN "ValueError"
        ELSE IF f = "rber" /\ ~IsFloatText(FieldText(meta, f, off)) THEN "ValueError"
        ELSE ""
FieldValue(meta, f, off) ==
    IF f \in IntFields THEN IntV(PyInt(FieldText(meta, f, off)))
    ELSE IF f = "rber" THEN StrV(FloatRepr[FieldText(meta, f, off)])
    ELSE StrV(FieldText(meta, f, off))

\* m = int(meta_split[5][2:]) where the category has it
MError(meta) ==
    IF ~HasElement(meta, 5) THEN "IndexError"
    ELSE IF ~IsIntText(DropChars(ElementAt(meta, 5), 2)) THEN "ValueError"
    ELSE ""

\* the branch of one category (lines 52-109)
ReadFields(meta, category) ==
    LET unk_no_element == category = "UNK" /\ Len(meta) <= 5
        has_m == \/ category = "BCH"
                 \/ category = "UNK" /\ ~unk_no_element /\ ElementAt(meta, 5)[1] = "m"
        off == IF has_m THEN 1 ELSE 0
        order == <<"p", "t", "k", "n", "m", "rber", "bl", "bcl", "ps", "ed", "cd", "dp">>
        err(f) == IF f = "m"
                  THEN (IF unk_no_element THEN "IndexError"
                        ELSE IF has_m THEN MError(meta) ELSE "")
                  ELSE FieldError(meta, f, off)
        bad == {i \in DOMAIN order : err(order[i]) # ""}
        val(f) == IF f = "ecc_category" THEN StrV(category)
                  ELSE IF f = "m"
                  THEN (IF has_m THEN IntV(PyInt(DropChars(ElementAt(meta, 5), 2)))
                        ELSE IntV(-1))
                  ELSE FieldValue(meta, f, off)
    IN  IF bad # {}
        THEN [st |-> "raise",
              exc |-> err(order[CHOOSE i \in bad : \A j \in bad : i <= j]),
              metadata |-> <<>>]
        ELSE [st |-> "ok", exc |-> "",
              metadata |-> [i \in DOMAIN LegacyFields |-> val(LegacyFields[i])]]

\* script/utils.py parse_einsim_output_line: [metadata, data], None or an
\* exception; data keeps the entries unread (map(int, ...) is lazy)
legacy_parse_einsim_output_line(line) ==
    IF ~(Len(line) >= 1 /\ line[1] = <<"[DATA]">>) THEN RetNone(FALSE)
    ELSE
    LET rest == Tail(line) IN
    IF Cardinality(BracketAt(rest)) # 1 THEN Raise("ValueError")
    ELSE
    LET meta == MetaOf(line)
        raw_data == PayloadOf(line)
        ecc_category == EccCategory(meta)
    IN
    \* the warning for an unhandled category reads line_num and infilename, which
    \* this function does not have
    IF ecc_category \notin {"REP", "HSC", "BCH", "UNK"} THEN Raise("NameError")
    ELSE
    LET r == ReadFields(meta, ecc_category) IN
    IF r.st = "raise" THEN Raise(r.exc)
    ELSE RetRec([metadata |-> r.metadata,
                 data |-> SelectSeq(raw_data, LAMBDA w : Len(w) >= 2)])

\* script/utils.py run_uid_from_metadata: p is written as -1, UNK keeps bl only
LegacySlot(metadata, f) ==
    metadata[CHOOSE i \in DOMAIN LegacyFields : LegacyFields[i] = f]
legacy_run_uid_from_metadata(metadata) ==
    LET category == LegacySlot(metadata, "ecc_category").s
        word(f) == <<f, PyStr(LegacySlot(metadata, f))>>
        head == <<(<<"[DATA]">>), <<category, "">>>>
    IN  IF category = "UNK" THEN head \o <<word("bl")>>
        ELSE head \o <<(<<"p", "-1">>), word("t"), word("k"), word("n")>>
                  \o (IF category = "BCH" THEN <<word("m")>> ELSE <<>>)
                  \o <<word("rber"), word("bl"), word("bcl"), word("ps"),
                       word("ed"), word("cd"), word("dp")>>

\* input lines of the positional format
LgWords(category, t, bl, tail) ==
    <<DATA, <<category, "">>, <<"p", "1">>, <<"t", t>>, <<"k", "4">>, <<"n", "12">>>>
    \o (IF category = "BCH" THEN <<(<<"m", "3">>)>> ELSE <<>>)
    \o <<(<<"rber", "0.50">>), <<"bl", bl>>, <<"bcl", "8">>, <<"ps", "0">>,
         <<"ed", "U">>, <<"cd", "A">>, <<"dp", "R">>, LB>>
    \o tail \o <<RB>>
LG_rep == LgWords("REP", "1", "4", <<(<<"0", "3", "4">>), <<"1", "2", "0">>>>)
\* the same run with another permutation seed
LG_rep_p2 == [LG_rep EXCEPT ![3] = <<"p", "2">>]
LG_bch == LgWords("BCH", "1", "4", <<(<<"0", "1", "2">>), <<"2", "0", "1">>>>)
LG_unk == LgWords("UNK", "1", "4", <<(<<"1", "1", "1">>)>>)
\* no uncorrectable word at all
LG_noue == LgWords("REP", "1", "4", <<(<<"0", "3", "0">>)>>)
\* nine errors in a codeword of eight bits
LG_over == LgWords("REP", "1", "4", <<(<<"0", "0", "1">>), <<"9", "1", "0">>>>)
LG_badtriple == LgWords("REP", "1", "4", <<(<<"0", "x", "1">>)>>)
LG_badint == LgWords("REP", "x", "4", <<(<<"0", "3", "4">>)>>)
LG_short == <<DATA, <<"HSC", "">>, <<"p", "1">>, LB, <<"0", "3", "4">>, RB>>
LG_nocat == <<DATA, <<"XYZ", "">>, <<"p", "1">>, LB, <<"0", "3", "4">>, RB>>

\* the lines read on the way through parse_files_incremental
LegacyLinePool ==
    {L_other, LG_rep, LG_bch, LG_unk, LG_noue, LG_over, LG_badtriple, LG_badint, LG_nocat,
     LG_example}

\* the lines read on the way through parse_all_files
FileLinePool == {L_other, LG_rep, LG_rep_p2, LG_noue, LG_over, LG_short}

(***************************************************************************)
(* script/utils.py: parse_files_incremental with a callback, and           *)
(* parse_all_files over parse_einsim_output_file.                          *)
(***************************************************************************)
VARIABLES
    lg_entry,           \* "incremental": parse_files_incremental, "all": parse_all_files
    lg_experimental,    \* is_experimental / experimental
    lg_pc,              \* "idle", "run", "combine", "done" or "abort"
    lg_abort_exc,       \* the exception that ended the run
    lg_infile,          \* index of the file being read
    lg_line_num,        \* line_num
    lg_malformed_line,  \* malformed_line
    lg_experiment_id,   \* experiment_id
    lg_calls,           \* the callback invocations so far
    lg_dirty_data,      \* dirty_data of the file being read
    lg_raw_data,        \* raw_data of parse_all_files, in insertion order
    lg_n_warnings,      \* malformed-line warnings printed, per file
    lg_n_raised,        \* history: lines whose parsing raised, per file
    lg_last_line,       \* the line handled by the last step
    lg_last_exc,        \* the exception its handling raised, "" for none
    lg_lines_read,      \* lines read so far, over all files
    lg_parsed_at        \* the positions and lines for which the parser returned a record

legacy_vars ==
    <<lg_entry, lg_experimental, lg_pc, lg_abort_exc, lg_infile, lg_line_num,
      lg_malformed_line, lg_experiment_id, lg_calls, lg_dirty_data, lg_raw_data,
      lg_n_warnings, lg_n_raised, lg_last_line, lg_last_exc, lg_lines_read, lg_parsed_at>>

\* bl, bcl and ps of a metadata list
LegacyEnv(metadata) ==
    BoundEnv(LegacySlot(metadata, "bl").i, LegacySlot(metadata, "bcl").i,
             LegacySlot(metadata, "ps").i)

\* metadata without the permutation seed
MetadataNoP(metadata) == SubSeq(metadata, 1, 1) \o SubSeq(metadata, 3, Len(metadata))

\* run_uid, with '_experiment_' + str(experiment_id) for an experimental source
LegacyUid(metadata, experimental, eid) ==
    IF experimental
    THEN StrAppend(legacy_run_uid_from_metadata(metadata), "_experiment_" \o ToString(eid))
    ELSE legacy_run_uid_from_metadata(metadata)

\* the three histograms of the runs of one uid, folded run after run
RECURSIVE FoldRuns(_, _, _)
FoldRuns(runs, env, acc) ==
    IF runs = <<>>
    THEN [st |-> "ok", exc |-> "", raw |-> acc.raw, re |-> acc.re, ue |-> acc.ue]
    ELSE LET f == FoldTriples(Head(runs), env, acc)
         IN  IF f.st = "raise" THEN f
             ELSE FoldRuns(Tail(runs), env, [raw |-> f.raw, re |-> f.re, ue |-> f.ue])

\* histograms and rates of one uid: the dict handed on, or the exception
Histograms(metadata_no_p, p, runs, env) ==
    LET f == FoldRuns(runs, env, [raw |-> EmptyDict, re |-> EmptyDict, ue |-> EmptyDict])
        rates == Rates(f.re, f.ue, env)
    IN  IF f.st = "raise" THEN [st |-> "raise", exc |-> f.exc, raw_data |-> NoneV]
        ELSE IF rates.st = "raise"
        THEN [st |-> "raise", exc |-> rates.exc, raw_data |-> NoneV]
        ELSE [st |-> "ok", exc |-> "",
              raw_data |-> [metadata |-> metadata_no_p, p |-> p, raw_data |-> f.raw,
                            rber |-> rates.rber, uber |-> rates.uber,
                            re_data |-> f.re, ue_data |-> f.ue]]

\* parsed_line = parse_einsim_output_line(line), for each line that can be read
parsed_line ==
    [l \in LegacyLinePool \cup FileLinePool |-> legacy_parse_einsim_output_line(l)]

LegacyInit ==
    /\ lg_entry \in {"incremental", "all"}
    /\ lg_experimental \in BOOLEAN
    /\ lg_pc = "run"
    /\ lg_abort_exc = ""
    /\ lg_infile = 1
    /\ lg_line_num = 0
    /\ lg_malformed_line = -1
    /\ lg_experiment_id = 0
    /\ lg_calls = <<>>
    /\ lg_dirty_data = <<>>
    /\ lg_raw_data = <<>>
    /\ lg_n_warnings = [f \in DOMAIN infilenames |-> 0]
    /\ lg_n_raised = [f \in DOMAIN infilenames |-> 0]
    /\ lg_last_line = <<>>
    /\ lg_last_exc = ""
    /\ lg_lines_read = 0
    /\ lg_parsed_at = <<>>

\* parse_files_incremental: one iteration of `while line:` (lines 304-370)
LegacyReadLine(line) ==
    /\ lg_entry = "incremental"
    /\ lg_pc = "run"
    /\ lg_lines_read < MaxLines
    /\ lg_lines_read' = lg_lines_read + 1
    /\ LET r == parsed_line[line]
           warns == r.st = "raise" /\ FirstMalformed(lg_malformed_line)
           metadata == r.rec.metadata
           run_uid == LegacyUid(metadata, lg_experimental, lg_experiment_id)
           h == Histograms(MetadataNoP(metadata), <<LegacySlot(metadata, "p")>>,
                           <<r.rec.data>>, LegacyEnv(metadata))
           fatal == r.st = "rec" /\ h.st = "raise"
       IN  /\ lg_line_num' = lg_line_num + 1
           /\ lg_malformed_line' = IF warns THEN lg_line_num + 1 ELSE lg_malformed_line
           /\ lg_n_warnings' = IF warns THEN [lg_n_warnings EXCEPT ![lg_infile] = @ + 1]
                               ELSE lg_n_warnings
           /\ lg_n_raised' = IF r.st = "raise" THEN [lg_n_raised EXCEPT ![lg_infile] = @ + 1]
                             ELSE lg_n_raised
           /\ lg_experiment_id' = IF r.st = "rec" /\ lg_experimental
                                  THEN lg_experiment_id + 1 ELSE lg_experiment_id
           /\ lg_calls' = IF r.st = "rec" /\ ~fatal
                          THEN Append(lg_calls, [file |-> lg_infile,
                                                 line |-> lg_line_num + 1,
                                                 uid |-> run_uid, data |-> h.raw_data])
                          ELSE lg_calls
           /\ lg_pc' = IF fatal THEN "abort" ELSE "run"
           /\ lg_abort_exc' = IF fatal THEN h.exc ELSE ""
           /\ lg_last_line' = line
           /\ lg_last_exc' = IF r.st = "raise" THEN r.exc
                             ELSE IF fatal THEN h.exc ELSE ""
           /\ lg_parsed_at' = IF r.st = "rec"
                              THEN Append(lg_parsed_at, <<lg_infile, lg_line_num + 1, line>>)
                              ELSE lg_parsed_at
    /\ UNCHANGED <<lg_entry, lg_experimental, lg_infile, lg_dirty_data, lg_raw_data>>

\* parse_files_incremental: readline() returns '' and the next file is opened
LegacyNextFile ==
    /\ lg_entry = "incremental"
    /\ lg_pc = "run"
    /\ lg_infile < Len(infilenames)
    /\ lg_infile' = lg_infile + 1
    /\ lg_line_num' = 0
    /\ lg_malformed_line' = -1
    /\ lg_last_line' = <<>>
    /\ lg_last_exc' = ""
    /\ UNCHANGED <<lg_entry, lg_experimental, lg_pc, lg_abort_exc, lg_experiment_id,
                   lg_calls, lg_dirty_data, lg_raw_data, lg_n_warnings, lg_n_raised, lg_lines_read,
                   lg_parsed_at>>

\* parse_files_incremental: the last file is exhausted
LegacyReturn ==
    /\ lg_entry = "incremental"
    /\ lg_pc = "run"
    /\ lg_infile = Len(infilenames)
    /\ lg_pc' = "done"
    /\ lg_last_line' = <<>>
    /\ lg_last_exc' = ""
    /\ UNCHANGED <<lg_entry, lg_experimental, lg_abort_exc, lg_infile, lg_line_num,
                   lg_malformed_line, lg_experiment_id, lg_calls, lg_dirty_data,
                   lg_raw_data, lg_n_warnings, lg_n_raised, lg_lines_read, lg_parsed_at>>

\* parse_einsim_output_file: one iteration of `while line:` (lines 132-150)
FileReadLine(line) ==
    /\ lg_entry = "all"
    /\ lg_pc = "run"
    /\ lg_lines_read < MaxLines
    /\ lg_lines_read' = lg_lines_read + 1
    /\ LET r == parsed_line[line]
           warns == r.st = "raise" /\ FirstMalformed(lg_malformed_line)
       IN  /\ lg_line_num' = lg_line_num + 1
           /\ lg_malformed_line' = IF warns THEN lg_line_num + 1 ELSE lg_malformed_line
           /\ lg_n_warnings' = IF warns THEN [lg_n_warnings EXCEPT ![lg_infile] = @ + 1]
                               ELSE lg_n_warnings
           /\ lg_n_raised' = IF r.st = "raise" THEN [lg_n_raised EXCEPT ![lg_infile] = @ + 1]
                             ELSE lg_n_raised
           /\ lg_dirty_data' = IF r.st = "rec" THEN Append(lg_dirty_data, r.rec)
                               ELSE lg_dirty_data
           /\ lg_last_line' = line
           /\ lg_last_exc' = IF r.st = "raise" THEN r.exc ELSE ""
           /\ lg_parsed_at' = IF r.st = "rec"
                              THEN Append(lg_parsed_at, <<lg_infile, lg_line_num + 1, line>>)
                              ELSE lg_parsed_at
    /\ UNCHANGED <<lg_entry, lg_experimental, lg_pc, lg_abort_exc, lg_infile,
                   lg_experiment_id, lg_calls, lg_raw_data>>

\* raw_data after the records of one file are filed under their run_uid
\* (parse_all_files lines 218-232)
UidIndex(raw, uid) == {i \in DOMAIN raw : raw[i].uid = uid}
RECURSIVE GroupRuns(_, _, _, _)
GroupRuns(dirty, raw, experimental, eid) ==
    IF dirty = <<>> THEN [raw |-> raw, eid |-> eid]
    ELSE LET metadata == Head(dirty).metadata
             run_uid == LegacyUid(metadata, experimental, eid)
             base == IF UidIndex(raw, run_uid) = {}
                     THEN Append(raw, [uid |-> run_uid,
                                       metadata |-> MetadataNoP(metadata),
                                       data |-> <<>>, p |-> <<>>])
                     ELSE raw
             i == CHOOSE j \in UidIndex(base, run_uid) : TRUE
             filed == [base EXCEPT ![i].data = Append(@, Head(dirty).data),
                                   ![i].p = Append(@, LegacySlot(metadata, "p"))]
         IN  GroupRuns(Tail(dirty), filed, experimental,
                       IF experimental THEN eid + 1 ELSE eid)

\* parse_all_files: parse_einsim_output_file returns and its records are filed
FileDone ==
    /\ lg_entry = "all"
    /\ lg_pc = "run"
    /\ LET g == GroupRuns(lg_dirty_data, lg_raw_data, lg_experimental, lg_experiment_id)
       IN  /\ lg_raw_data' = g.raw
           /\ lg_experiment_id' = g.eid
    /\ lg_dirty_data' = <<>>
    /\ lg_line_num' = 0
    /\ lg_malformed_line' = -1
    /\ lg_infile' = IF lg_infile < Len(infilenames) THEN lg_infile + 1 ELSE lg_infile
    /\ lg_pc' = IF lg_infile < Len(infilenames) THEN "run" ELSE "combine"
    /\ lg_last_line' = <<>>
    /\ lg_last_exc' = ""
    /\ UNCHANGED <<lg_entry, lg_experimental, lg_abort_exc, lg_calls, lg_n_warnings, lg_n_raised,
                   lg_lines_read, lg_parsed_at>>

\* parse_all_files: combine histograms (lines 237-276); the first run_uid whose
\* histograms cannot be built ends the run
CombinedAt(raw, i) ==
    Histograms(raw[i].metadata, raw[i].p, raw[i].data,
               BoundEnv(raw[i].metadata[7].i, raw[i].metadata[8].i, raw[i].metadata[9].i))
CombineHistograms ==
    /\ lg_entry = "all"
    /\ lg_pc = "combine"
    /\ LET bad == {i \in DOMAIN lg_raw_data : CombinedAt(lg_raw_data, i).st = "raise"}
           first == CHOOSE i \in bad : \A j \in bad : i <= j
       IN  IF bad # {}
           THEN /\ lg_pc' = "abort"
                /\ lg_abort_exc' = CombinedAt(lg_raw_data, first).exc
                /\ lg_raw_data' = lg_raw_data
           ELSE /\ lg_pc' = "done"
                /\ lg_abort_exc' = ""
                /\ lg_raw_data' = [i \in DOMAIN lg_raw_data |->
                                      [uid |-> lg_raw_data[i].uid,
                                       result |-> CombinedAt(lg_raw_data, i).raw_data]]
    /\ UNCHANGED <<lg_entry, lg_experimental, lg_infile, lg_line_num, lg_malformed_line,
                   lg_experiment_id, lg_calls, lg_dirty_data, lg_n_warnings, lg_n_raised,
                   lg_last_line, lg_last_exc, lg_lines_read, lg_parsed_at>>

(***************************************************************************)
(* script/ein/ein.py: the likelihood of an observation under one model.    *)
(* A float that is a probability is kept exactly, as count / sum or as the *)
(* literal 1e-10; the likelihood exp(log_prob) is kept as the exact        *)
(* product (1e-10)^k * num / den, and log_prob values are compared through *)
(* it (log is increasing).                                                 *)
(***************************************************************************)
max_n_models_to_plot == 20

\* F(v), with v evaluated once
Bind(v, F(_)) == CHOOSE r \in {F(x) : x \in {v}} : TRUE

RECURSIVE Factorial(_)
Factorial(n) == IF n <= 1 THEN 1 ELSE n * Factorial(n - 1)

RECURSIVE Power(_, _)
Power(b, e) == IF e <= 0 THEN 1 ELSE b * Power(b, e - 1)

RECURSIVE ProdSeq(_)
ProdSeq(s) == IF s = <<>> THEN 1 ELSE Head(s) * ProdSeq(Tail(s))

\* the keys of sorted(d.items())
RECURSIVE SortedKeys(_)
SortedKeys(S) ==
    IF S = {} THEN <<>>
    ELSE LET m == CHOOSE x \in S : \A y \in S : x <= y
         IN  <<m>> \o SortedKeys(S \ {m})

\* a category that gets probability zero
ZeroProbability == [floor |-> FALSE, num |-> 0, den |-> 1]

\* the float 1e-10 given to a category the histogram does not have
FloorProbability == [floor |-> TRUE, num |-> 1, den |-> 1]

\* count / s_histogram_sum
Ratio(count, sum) == [floor |-> FALSE, num |-> count, den |-> sum]

\* single_trial_probabilities, with every i in range(s_bl + 1) added
single_trial_probabilities(s_histogram, s_bl) ==
    [n_errs \in DOMAIN s_histogram \cup 0 .. s_bl |->
        IF n_errs \in DOMAIN s_histogram
        THEN Ratio(s_histogram[n_errs], SumValues(s_histogram))
        ELSE FloorProbability]

\* [prob for n_errs, prob in sorted(d.items())]
SortedValues(d) ==
    Bind(SortedKeys(DOMAIN d), LAMBDA keys : [i \in DOMAIN keys |-> d[keys[i]]])

\* o_sample_probs: the counts, with 1e-10 for every missing i in range(o_bl + 1);
\* np.array(..., dtype=int) truncates 1e-10 to 0
o_sample_probs(o_sample_histogram, o_bl) ==
    [n_errs \in DOMAIN o_sample_histogram \cup 0 .. o_bl |->
        IF n_errs \in DOMAIN o_sample_histogram
        THEN [floor |-> FALSE, count |-> o_sample_histogram[n_errs]]
        ELSE [floor |-> TRUE, count |-> 0]]
CountVector(o_sample_pmf) == [i \in DOMAIN o_sample_pmf |-> o_sample_pmf[i].count]

\* gammaln(n+1) + np.sum(xlogy(x, p) - gammaln(x+1)): arrays of different
\* lengths do not broadcast unless one has a single element; xlogy(x, 0) is
\* -inf for x > 0 and 0 for x = 0
LogProbRaise(e) == [st |-> "raise", exc |-> e, k |-> 0, num |-> 0, den |-> 1]
LogProb(x, p, n) ==
    IF ~(Len(x) = Len(p) \/ Len(x) = 1 \/ Len(p) = 1) THEN LogProbRaise("ValueError")
    ELSE
    LET len == IF Len(x) >= Len(p) THEN Len(x) ELSE Len(p)
        xi(i) == IF Len(x) = 1 THEN x[1] ELSE x[i]
        pi(i) == IF Len(p) = 1 THEN p[1] ELSE p[i]
    IN  IF \E i \in 1 .. len : ~pi(i).floor /\ pi(i).num = 0 /\ xi(i) > 0
        THEN [st |-> "-inf", exc |-> "", k |-> 0, num |-> 0, den |-> 1]
        ELSE [st |-> "finite", exc |-> "",
              k |-> SumSeq([i \in 1 .. len |-> IF pi(i).floor THEN xi(i) ELSE 0]),
              num |-> Factorial(n)
                      * ProdSeq([i \in 1 .. len |->
                                    IF pi(i).floor THEN 1 ELSE Power(pi(i).num, xi(i))]),
              den |-> ProdSeq([i \in 1 .. len |-> Factorial(xi(i))])
                      * ProdSeq([i \in 1 .. len |->
                                    IF pi(i).floor THEN 1 ELSE Power(pi(i).den, xi(i))])]

\* a < b on two log_prob floats; within the counts of the model a factor
\* 1e-10 outweighs every ratio of the rational parts
ScoreLess(a, b) ==
    IF b.st = "-inf" THEN FALSE
    ELSE IF a.st = "-inf" THEN TRUE
    ELSE a.k > b.k \/ (a.k = b.k /\ a.num * b.den < b.num * a.den)
ScoreEqual(a, b) == ~ScoreLess(a, b) /\ ~ScoreLess(b, a)

\* np.max(log_probs)
MaxOf(log_probs) ==
    log_probs[CHOOSE i \in DOMAIN log_probs :
                  \A j \in DOMAIN log_probs : ~ScoreLess(log_probs[i], log_probs[j])]

\* str order of two decimal numerals: by digits, a proper prefix first (in a uid
\* the numeral is followed by ' ', which sorts before every digit)
Digits(i) == IF i < 10 THEN <<i>> ELSE <<i \div 10, i % 10>>
NumeralLess(i, j) ==
    LET a == Digits(i)
        b == Digits(j)
    IN  \/ a[1] < b[1]
        \/ a[1] = b[1] /\ Len(a) < Len(b)
        \/ a[1] = b[1] /\ Len(a) = 2 /\ Len(b) = 2 /\ a[2] < b[2]

\* u < v on two uid strings that differ in numerals only
UidLess(u, v) ==
    LET d == {i \in DOMAIN u \cap DOMAIN v : u[i] # v[i]}
        i == CHOOSE x \in d : \A y \in d : x <= y
    IN  IF d = {} THEN Len(u) < Len(v)
        ELSE NumeralLess(PyInt(u[i][2]), PyInt(v[i][2]))

\* (logprob, uid) < (logprob, uid) on two heap items
HeapItemLess(a, b) ==
    \/ ScoreLess(a.logprob, b.logprob)
    \/ ScoreEqual(a.logprob, b.logprob) /\ UidLess(a.uid, b.uid)

\* a heap that keeps its largest item on top
HeapBottom(heap) == CHOOSE a \in heap : \A b \in heap \ {a} : HeapItemLess(b, a)

\* heap[0] of a heapq list, kept as the set of its items
HeapTop(heap) == CHOOSE a \in heap : \A b \in heap \ {a} : HeapItemLess(a, b)

\* heapq.heappop(heap)
heappop(heap) == [item |-> HeapTop(heap), heap |-> heap \ {HeapTop(heap)}]

\* a pop that leaves the key in place
DictKeep(d, k) == d

\* d.pop(k) and d[k] = v on a dict
DictPop(d, k) == [x \in DOMAIN d \ {k} |-> d[x]]
DictSet(d, k, v) == [x \in DOMAIN d \cup {k} |-> IF x = k THEN v ELSE d[x]]

\* bl of a metadata list without the permutation seed
NoPBurstLength(metadata) == metadata[7].i

\* the globals of ein.py before any callback
NoGlobals == [log_probabilities |-> EmptyDict, top_n_models_heapq |-> EmptyDict,
              top_n_models_data |-> EmptyDict]

\* how a call of the callback ended: the globals after it and what it computed
CallbackEnd(g, st, exc, s_pmf, xs, log_probs) ==
    [g |-> g, st |-> st, exc |-> exc, s_pmf |-> s_pmf, xs |-> xs, log_probs |-> log_probs]

\* lines 98-117 of the callback: the log-probabilities of the model are kept,
\* and the model enters the heap of the observation if there is room or if its
\* best log-probability is above the smallest one kept
KeepTopModels(g, sim_uid, sim_data, exp_uid, exp_data, log_probs) ==
    LET known == IF exp_uid \in DOMAIN g.log_probabilities
                 THEN g.log_probabilities[exp_uid] ELSE EmptyDict
        heap == IF exp_uid \in DOMAIN g.top_n_models_data
                THEN g.top_n_models_heapq[exp_uid] ELSE {}
        sims == IF exp_uid \in DOMAIN g.top_n_models_data
                THEN g.top_n_models_data[exp_uid].sims ELSE EmptyDict
        full == Cardinality(heap) = max_n_models_to_plot
        kept(enters, popped, sim_max_logprob) ==
            [log_probabilities |->
                 DictSet(g.log_probabilities, exp_uid, DictSet(known, sim_uid, log_probs)),
             top_n_models_heapq |->
                 DictSet(g.top_n_models_heapq, exp_uid,
                         IF ~enters THEN heap
                         ELSE (IF full THEN heap \ {popped} ELSE heap)
                              \cup {[logprob |-> sim_max_logprob, uid |-> sim_uid]}),
             top_n_models_data |->
                 DictSet(g.top_n_models_data, exp_uid,
                         [exp_data |-> exp_data,
                          sims |-> IF ~enters THEN sims
                                   ELSE DictSet(IF full THEN DictPop(sims, popped.uid)
                                                ELSE sims,
                                                sim_uid, [log_probs |-> log_probs,
                                                          sim_data |-> sim_data])])]
    IN  Bind(MaxOf(log_probs), LAMBDA sim_max_logprob :
            IF ~full THEN kept(TRUE, NoneV, sim_max_logprob)
            ELSE Bind(heappop(heap).item, LAMBDA top :
                     kept(ScoreLess(top.logprob, sim_max_logprob), top, sim_max_logprob)))

\* a guard that lets every model through
BurstMismatchNever(o_bl, s_bl) == FALSE

\* `if o_bl != s_bl:` the model is for another burst length
BurstMismatch(o_bl, s_bl) == o_bl # s_bl

\* callback(sim_uid, sim_data, exp_uid, exp_data, o_sample_histograms) on the
\* globals g.  The label s_xlabel is text for the plot and is left out.
callback(g, sim_uid, sim_data, exp_uid, exp_data, o_sample_histograms) ==
    LET o_bl == NoPBurstLength(exp_data.metadata)
        s_bl == NoPBurstLength(sim_data.metadata)
        s_histogram == sim_data.ue_data
        repeated == /\ exp_uid \in DOMAIN g.log_probabilities
                    /\ sim_uid \in DOMAIN g.log_probabilities[exp_uid]
    IN  IF BurstMismatch(o_bl, s_bl) THEN CallbackEnd(g, "skip", "", <<>>, <<>>, <<>>)
        ELSE IF s_histogram # EmptyDict /\ SumValues(s_histogram) = 0
        THEN CallbackEnd(g, "raise", "ZeroDivisionError", <<>>, <<>>, <<>>)
        ELSE
        Bind(SortedValues(single_trial_probabilities(s_histogram, s_bl)), LAMBDA s_pmf :
        Bind([j \in DOMAIN o_sample_histograms |->
                 CountVector(SortedValues(o_sample_probs(o_sample_histograms[j], o_bl)))],
             LAMBDA xs :
        Bind([j \in DOMAIN o_sample_histograms |->
                 LogProb(xs[j], s_pmf, SumValues(o_sample_histograms[j]))],
             LAMBDA log_probs :
            IF \E j \in DOMAIN log_probs : log_probs[j].st = "raise"
            THEN CallbackEnd(g, "raise", "ValueError", s_pmf, xs, <<>>)
            ELSE IF repeated
            THEN CallbackEnd(g, "raise", "AssertionError", s_pmf, xs, log_probs)
            ELSE CallbackEnd(KeepTopModels(g, sim_uid, sim_data, exp_uid, exp_data,
                                           log_probs),
                             "ok", "", s_pmf, xs, log_probs))))

(***************************************************************************)
(* script/ein/ein.py: evaluate_likelihoods_incremental.  Every observation *)
(* is compared with every model of the simulation file, which              *)
(* parse_files_incremental of script/utils.py reads line by line.          *)
(***************************************************************************)
\* models in the simulation file
MaxModels == 23
\* bootstrap samples drawn per observation
MaxSamples == 2

\* the histograms a simulation line may hold, with its burst length
SimShapes ==
    <<[bl |-> "4", tail |-> <<(<<"0", "3", "4">>), <<"1", "2", "0">>>>],
      [bl |-> "4", tail |-> <<(<<"0", "1", "1">>), <<"2", "0", "1">>>>],
      [bl |-> "4", tail |-> <<(<<"1", "1", "1">>)>>],
      [bl |-> "5", tail |-> <<(<<"0", "3", "4">>)>>]>>

\* a simulation line: a REP model with correction capability t
SimLine(t, shape) ==
    LgWords("REP", ToString(t), SimShapes[shape].bl, SimShapes[shape].tail)

\* the simulation files: line i holds the histogram pattern[i] of a repeating
\* pattern, and the t of line i is that of line i - period
SimPatterns ==
    {<<1>>, <<3>>, <<4>>, <<1, 2>>, <<2, 1>>, <<1, 3>>, <<3, 1>>, <<3, 2>>, <<2, 4>>,
     <<1, 2, 3>>, <<3, 2, 1>>, <<2, 3, 1>>, <<3, 3, 1>>, <<1, 1, 3>>, <<4, 1, 2>>}
SimPeriods == {4, MaxModels}

\* what parse_files_incremental hands to the callback for a simulation line
\* (script/utils.py lines 306-366, is_experimental False)
SimCall(t, shape) ==
    Bind(legacy_parse_einsim_output_line(SimLine(t, shape)), LAMBDA r :
        [parsed |-> r,
         run_uid |-> LegacyUid(r.rec.metadata, FALSE, 0),
         h |-> Histograms(MetadataNoP(r.rec.metadata),
                          <<LegacySlot(r.rec.metadata, "p")>>, <<r.rec.data>>,
                          LegacyEnv(r.rec.metadata))])

\* an entry of raw_data_exp = parse_all_files(exp_filenames, experimental=True)
Observation(line, eid) ==
    LET metadata == legacy_parse_einsim_output_line(line).rec.metadata
    IN  [uid |-> LegacyUid(metadata, TRUE, eid),
         data |-> Histograms(MetadataNoP(metadata), <<LegacySlot(metadata, "p")>>,
                             <<legacy_parse_einsim_output_line(line).rec.data>>,
                             LegacyEnv(metadata)).raw_data]
\* an observed BCH run with one uncorrectable word of no error and one of two
LG_observed == LgWords("BCH", "1", "4", <<(<<"0", "1", "1">>), <<"2", "0", "1">>>>)
ObservationLists ==
    {<<Observation(LG_rep, 0)>>, <<Observation(LG_observed, 0)>>,
     <<Observation(LG_observed, 0), Observation(LG_rep, 1)>>}

\* samples that lose the counts of the observation
ResamplesEmpty(o_histogram) == {[n_errs \in DOMAIN o_histogram |-> 0]}

\* rv.rvs: the histograms over the categories of o_histogram with its total
Resamples(o_histogram) ==
    {h \in [DOMAIN o_histogram -> 0 .. SumValues(o_histogram)] :
        SumValues(h) = SumValues(o_histogram)}

VARIABLES
    e_pc,                 \* "idle", "start", "read", "done" or "abort"
    e_exc,                \* the exception that ended the run, "" for none
    observations,         \* argument of evaluate_likelihoods_incremental, in order
    n_bootstrap_samples,  \* argument of evaluate_likelihoods_incremental
    e_file,               \* the simulation file: its pattern and period
    e_obs,                \* index of the observation being evaluated
    o_sample_histograms,  \* the samples of that observation
    e_line_num,           \* lines read from the simulation file in this pass
    log_probabilities,    \* global of ein.py
    top_n_models_heapq,   \* global of ein.py
    top_n_models_data,    \* global of ein.py
    e_last                \* history: what the last callback computed

ein_vars == <<e_pc, e_exc, observations, n_bootstrap_samples, e_file, e_obs,
              o_sample_histograms, e_line_num, log_probabilities, top_n_models_heapq,
              top_n_models_data, e_last>>

\* the arguments and the outcome of a call of the callback
Called(sim_uid, sim_data, exp_data, samples, r) ==
    [sim_uid |-> sim_uid, sim_data |-> sim_data, exp_data |-> exp_data,
     o_sample_histograms |-> samples, st |-> r.st, exc |-> r.exc,
     s_pmf |-> r.s_pmf, xs |-> r.xs, log_probs |-> r.log_probs]
NoCallback ==
    Called(<<>>, NoneV, NoneV, <<>>, CallbackEnd(NoGlobals, "none", "", <<>>, <<>>, <<>>))

EinIdle ==
    /\ e_pc = "idle"
    /\ e_exc = ""
    /\ observations = <<>>
    /\ n_bootstrap_samples = 0
    /\ e_file = [pattern |-> <<1>>, period |-> MaxModels]
    /\ e_obs = 0
    /\ o_sample_histograms = <<>>
    /\ e_line_num = 0
    /\ log_probabilities = EmptyDict
    /\ top_n_models_heapq = EmptyDict
    /\ top_n_models_data = EmptyDict
    /\ e_last = NoCallback

EinInit ==
    /\ e_pc = "start"
    /\ e_exc = ""
    /\ observations \in ObservationLists
    /\ n_bootstrap_samples \in {0, MaxSamples}
    /\ e_file \in [pattern : SimPatterns, period : SimPeriods]
    /\ e_obs = 1
    /\ o_sample_histograms = <<>>
    /\ e_line_num = 0
    /\ log_probabilities = EmptyDict
    /\ top_n_models_heapq = EmptyDict
    /\ top_n_models_data = EmptyDict
    /\ e_last = NoCallback

\* evaluate_likelihoods_incremental: the samples of one observation (lines
\* 127-150), before parse_files_incremental is called
StartObservation ==
    /\ e_pc = "start"
    /\ LET o_histogram == observations[e_obs].data.ue_data
       IN  IF n_bootstrap_samples = 0
           THEN o_sample_histograms' = <<o_histogram>>
           ELSE o_sample_histograms' \in [1 .. n_bootstrap_samples -> Resamples(o_histogram)]
    /\ e_pc' = "read"
    /\ e_line_num' = 0
    /\ UNCHANGED <<e_exc, observations, n_bootstrap_samples, e_file, e_obs,
                   log_probabilities, top_n_models_heapq, top_n_models_data, e_last>>

\* parse_files_incremental of script/utils.py: one iteration of `while line:`
\* over the simulation file, with the callback of ein.py
EinReadLine ==
    /\ e_pc = "read"
    /\ e_line_num < MaxModels
    /\ e_line_num' = e_line_num + 1
    /\ \E c \in {SimCall((e_line_num % e_file.period) + 1,
                         e_file.pattern[(e_line_num % Len(e_file.pattern)) + 1])} :
       IF ~(c.parsed.st = "rec" /\ c.h.st = "ok")
       THEN /\ e_pc' = IF c.parsed.st = "rec" THEN "abort" ELSE "read"
            /\ e_exc' = IF c.parsed.st = "rec" THEN c.h.exc ELSE ""
            /\ UNCHANGED <<log_probabilities, top_n_models_heapq,
                           top_n_models_data, e_last>>
       ELSE \E r \in {callback([log_probabilities |-> log_probabilities,
                                top_n_models_heapq |-> top_n_models_heapq,
                                top_n_models_data |-> top_n_models_data],
                               c.run_uid, c.h.raw_data, observations[e_obs].uid,
                               observations[e_obs].data, o_sample_histograms)} :
            /\ e_pc' = IF r.st = "raise" THEN "abort" ELSE "read"
            /\ e_exc' = r.exc
            /\ log_probabilities' = r.g.log_probabilities
            /\ top_n_models_heapq' = r.g.top_n_models_heapq
            /\ top_n_models_data' = r.g.top_n_models_data
            /\ e_last' = Called(c.run_uid, c.h.raw_data, observations[e_obs].data,
                                 o_sample_histograms, r)
    /\ UNCHANGED <<observations, n_bootstrap_samples, e_file, e_obs, o_sample_histograms>>

\* parse_files_incremental returns, and the loop over the observations goes on
EinEndOfFile ==
    /\ e_pc = "read"
    /\ e_line_num = MaxModels
    /\ e_pc' = IF e_obs < Len(observations) THEN "start" ELSE "done"
    /\ e_obs' = IF e_obs < Len(observations) THEN e_obs + 1 ELSE e_obs
    /\ e_line_num' = 0
    /\ UNCHANGED <<e_exc, observations, n_bootstrap_samples, e_file, o_sample_histograms,
                   log_probabilities, top_n_models_heapq, top_n_models_data, e_last>>

(***************************************************************************)
(* Specifications.                                                         *)
(***************************************************************************)
vars == <<reducer_vars, combine_vars, uid_vars, legacy_vars, ein_vars>>

ReducerIdle ==
    /\ is_experimental = FALSE
    /\ pc = "idle"
    /\ abort_exc = ""
    /\ infile = 1
    /\ line_num = 0
    /\ malformed_line = -1
    /\ ecc_code = NoneV
    /\ ecc_codes = EmptyDict
    /\ experiment_id = 0
    /\ calls = <<>>
    /\ n_warnings = [f \in DOMAIN infilenames |-> 0]
    /\ n_raised = [f \in DOMAIN infilenames |-> 0]
    /\ last_line = <<>>
    /\ last_exc = ""
    /\ lines_read = 0
    /\ parsed_at = <<>>

LegacyIdle ==
    /\ lg_entry = "incremental"
    /\ lg_experimental = FALSE
    /\ lg_pc = "idle"
    /\ lg_abort_exc = ""
    /\ lg_infile = 1
    /\ lg_line_num = 0
    /\ lg_malformed_line = -1
    /\ lg_experiment_id = 0
    /\ lg_calls = <<>>
    /\ lg_dirty_data = <<>>
    /\ lg_raw_data = <<>>
    /\ lg_n_warnings = [f \in DOMAIN infilenames |-> 0]
    /\ lg_n_raised = [f \in DOMAIN infilenames |-> 0]
    /\ lg_last_line = <<>>
    /\ lg_last_exc = ""
    /\ lg_lines_read = 0
    /\ lg_parsed_at = <<>>

\* one run of a reader over the input files: the streaming file reducer of
\* script/utils/utils.py, or one of the two readers of script/utils.py
Init ==
    /\ \/ ReducerInit /\ LegacyIdle
       \/ ReducerIdle /\ fields_to_combine = {} /\ LegacyInit
    /\ CombineIdle
    /\ UidIdle
    /\ EinIdle
Next ==
    \/ \E line \in LinePool :
           ReadLine(line) /\ UNCHANGED <<combine_vars, uid_vars, legacy_vars, ein_vars>>
    \/ \E line \in LinePool :
           Interrupted(line) /\ UNCHANGED <<combine_vars, uid_vars, legacy_vars, ein_vars>>
    \/ NextFile /\ UNCHANGED <<combine_vars, uid_vars, legacy_vars, ein_vars>>
    \/ Return /\ UNCHANGED <<combine_vars, uid_vars, legacy_vars, ein_vars>>
    \/ IndexEccCodes /\ UNCHANGED <<combine_vars, uid_vars, legacy_vars, ein_vars>>
    \/ \E line \in LegacyLinePool :
           LegacyReadLine(line) /\ UNCHANGED <<reducer_vars, combine_vars, uid_vars, ein_vars>>
    \/ LegacyNextFile /\ UNCHANGED <<reducer_vars, combine_vars, uid_vars, ein_vars>>
    \/ LegacyReturn /\ UNCHANGED <<reducer_vars, combine_vars, uid_vars, ein_vars>>
    \/ \E line \in FileLinePool :
           FileReadLine(line) /\ UNCHANGED <<reducer_vars, combine_vars, uid_vars, ein_vars>>
    \/ FileDone /\ UNCHANGED <<reducer_vars, combine_vars, uid_vars, ein_vars>>
    \/ CombineHistograms /\ UNCHANGED <<reducer_vars, combine_vars, uid_vars, ein_vars>>
Spec == Init /\ [][Next]_vars

\* combine, write and read back one list of records
InitCombine == ReducerIdle /\ CombineInit /\ UidIdle /\ LegacyIdle /\ EinIdle
NextCombine ==
    \/ CombineRuns /\ UNCHANGED <<reducer_vars, uid_vars, legacy_vars, ein_vars>>
    \/ WriteOutput /\ UNCHANGED <<reducer_vars, uid_vars, legacy_vars, ein_vars>>
    \/ Reparse /\ UNCHANGED <<reducer_vars, uid_vars, legacy_vars, ein_vars>>
SpecCombine == InitCombine /\ [][NextCombine]_vars

\* the identity of two metadata records under one mask
InitUid == ReducerIdle /\ CombineIdle /\ UidInit /\ LegacyIdle /\ EinIdle
NextUid ==
    \E i \in 1 .. MI_MAX : \E v \in SlotValues(i) :
        ChangeField(i, v) /\ UNCHANGED <<reducer_vars, combine_vars, legacy_vars, ein_vars>>
SpecUid == InitUid /\ [][NextUid]_vars

\* the likelihood of every observation under every model of a simulation file
InitEin ==
    ReducerIdle /\ fields_to_combine = {} /\ CombineIdle /\ UidIdle /\ LegacyIdle /\ EinInit
NextEin ==
    \/ StartObservation /\ UNCHANGED <<reducer_vars, combine_vars, uid_vars, legacy_vars>>
    \/ EinReadLine /\ UNCHANGED <<reducer_vars, combine_vars, uid_vars, legacy_vars>>
    \/ EinEndOfFile /\ UNCHANGED <<reducer_vars, combine_vars, uid_vars, legacy_vars>>
SpecEin == InitEin /\ [][NextEin]_vars

(***************************************************************************)
(* Properties of the streaming file reducer.                               *)
(***************************************************************************)
\* position i comes before position j in the run: earlier file, or same file
\* and earlier line
Before(a, b) == a.file < b.file \/ (a.file = b.file /\ a.line < b.line)

\* the dict the reader of script/utils.py builds from the record of a line
BuiltFrom(line) ==
    LET metadata == parsed_line[line].rec.metadata
    IN  Histograms(MetadataNoP(metadata), <<LegacySlot(metadata, "p")>>,
                   <<parsed_line[line].rec.data>>, LegacyEnv(metadata))

\* C3: the callback is invoked exactly once for each line for which a record was
\* obtained, with that record, and for no other line; the invocations are in the
\* order of the file list and, within a file, in line order.  In the reader of
\* script/utils.py the record is the dict built from the parser's result, and a
\* line for which it cannot be built ends the run.
C3_CallbackOncePerParsedLine ==
    /\ Len(calls) = Len(parsed_at)
    /\ \A i \in DOMAIN calls :
        /\ calls[i].file = parsed_at[i][1]
        /\ calls[i].line = parsed_at[i][2]
        /\ calls[i].data =
              parsed_data_of[parsed_at[i][3], fields_to_combine, is_experimental].rec
    /\ \A i, j \in DOMAIN calls : i < j => Before(calls[i], calls[j])
    /\ lg_entry = "incremental" =>
        LET built == SelectSeq(lg_parsed_at, LAMBDA e : BuiltFrom(e[3]).st = "ok")
        IN  /\ Len(lg_calls) = Len(built)
            /\ \A i \in DOMAIN lg_calls :
                /\ lg_calls[i].file = built[i][1]
                /\ lg_calls[i].line = built[i][2]
                /\ lg_calls[i].data = BuiltFrom(built[i][3]).raw_data
            /\ \A i, j \in DOMAIN lg_calls : i < j => Before(lg_calls[i], lg_calls[j])
            /\ \A i \in DOMAIN lg_parsed_at :
                BuiltFrom(lg_parsed_at[i][3]).st = "raise" =>
                    i = Len(lg_parsed_at) /\ lg_pc = "abort"

\* C3 witness: the reducer returned after two callbacks, one per file, and after
\* at least one line of the first file failed to parse
C3_Witness ==
    /\ pc = "done"
    /\ Len(calls) = 2
    /\ calls[1].file = 1
    /\ calls[2].file = 2
    /\ n_warnings[1] = 1

\* C4: a line whose handling raises anything but an interruption is skipped and
\* the reducer goes on: no such exception leaves the reducer.
C4_MalformedLineNeverAborts ==
    /\ pc = "abort" => abort_exc = "KeyboardInterrupt"
    /\ (last_exc # "" /\ last_exc # "KeyboardInterrupt") => pc = "run"

\* an N_ERRORS_PER_BURST line with an entry over its bound: repair_count > 0 and
\* n_errors > bcl, or uncorrectable_count > 0 and n_errors > bl
ViolatesBounds(line) ==
    /\ Len(line) >= 1 /\ line[1] = DATA
    /\ Cardinality(BracketAt(Tail(line))) = 1
    /\ \A i \in DOMAIN MetaOf(line) : Len(MetaOf(line)[i]) >= 2
    /\ IntSlotsOk(MetaOf(line))
    /\ HasKey(MetaOf(line), "obs")
    /\ Extracted(MetaOf(line), "obs") = OBS_N_ERRORS_PER_BURST
    /\ LET md == ExtractMetadata(MetaOf(line))
           data == SelectSeq(PayloadOf(line), LAMBDA w : Len(w) >= 2)
       IN  /\ \A i \in DOMAIN data : TripleOk(data[i])
           /\ \E i \in DOMAIN data :
                \/ PyInt(data[i][2]) > 0 /\ PyInt(data[i][1]) > md[MI_BCL + 1].i
                \/ PyInt(data[i][3]) > 0 /\ PyInt(data[i][1]) > md[MI_BL + 1].i

\* a record's N_ERRORS_PER_BURST entries are within the bounds of its metadata
WithinBounds(rec) ==
    OBS_N_ERRORS_PER_BURST \in DOMAIN rec.observations =>
        LET o == rec.observations[OBS_N_ERRORS_PER_BURST] IN
        /\ \A n \in DOMAIN o.re_data : n <= rec.metadata[MI_BCL + 1].i
        /\ \A n \in DOMAIN o.ue_data : n <= rec.metadata[MI_BL + 1].i

\* C5: no record over its bounds reaches the callback, and a line over its
\* bounds ends the run with the consistency error instead of being logged as a
\* malformed line and skipped.
C5_BoundViolationIsFatal ==
    /\ \A i \in DOMAIN calls : WithinBounds(calls[i].data)
    /\ (~is_experimental /\ last_line # <<>> /\ ViolatesBounds(last_line)) =>
           (pc = "abort" /\ abort_exc = "AssertionError")

\* C7: in an experimental run, a line that parses to a record is delivered with
\* the suffix _experiment_<n> on its identity and on its masked identity, n being
\* the number of records delivered before it, so that no two records share an
\* identity.
C7_ExperimentSuffix ==
    is_experimental =>
        /\ (last_line # <<>>
            /\ parse_einsim_output_line(last_line, fields_to_combine, FALSE).st = "rec") =>
               /\ Len(calls) >= 1
               /\ calls[Len(calls)].file = infile
               /\ calls[Len(calls)].line = line_num
        /\ \A i \in DOMAIN calls :
               LET plain == parse_einsim_output_line(parsed_at[i][3],
                                                     fields_to_combine, FALSE).rec
                   suffix == "_experiment_" \o ToString(i - 1)
               IN  /\ calls[i].data.uid = StrAppend(plain.uid, suffix)
                   /\ calls[i].data.uid_ignoring_fields =
                          StrAppend(plain.uid_ignoring_fields, suffix)
        /\ \A i, j \in DOMAIN calls :
               i # j => calls[i].data.uid_ignoring_fields # calls[j].data.uid_ignoring_fields

(***************************************************************************)
(* Properties of the run combiner and of the output serialiser.            *)
(***************************************************************************)
\* the values of one metadata field over a list of records
FieldValues(data, elem) == {data[j].metadata[elem + 1] : j \in DOMAIN data}
SameField(data, elem) == Cardinality(FieldValues(data, elem)) = 1

\* every record of the list has the masked identity of the first
SharedIdentity(data) ==
    \A j \in DOMAIN data : data[j].uid_ignoring_fields = data[1].uid_ignoring_fields

\* the records are all of one observable kind
AllOfKind(data, kind) == \A j \in DOMAIN data : DOMAIN data[j].observations = {kind}

\* a list the combiner is specified to accept: one masked identity, one burst
\* length, codeword length, pad size and observable, a known number of words,
\* and per-bit sequences of one length
Combinable(data) ==
    /\ SharedIdentity(data)
    /\ \A elem \in {MI_BL, MI_BCL, MI_PS, MI_OBS} : SameField(data, elem)
    /\ \A j \in DOMAIN data : data[j].metadata[MI_NW + 1] # IntV(-1)
    /\ \A j \in DOMAIN data :
           OBS_PER_BIT_ERROR_COUNT \in DOMAIN data[j].observations =>
               LET a == data[j].observations[OBS_PER_BIT_ERROR_COUNT]
                   b == data[1].observations[OBS_PER_BIT_ERROR_COUNT]
               IN  /\ Len(a.hist_databurst) = Len(b.hist_databurst)
                   /\ Len(a.hist_codeburst) = Len(b.hist_codeburst)

\* C1: a combined record of either observable kind is written by
\* get_output_string, every written line is read back by the line parser as a
\* record, and the histograms read back are those of the combined record.
C1_RoundTrip ==
    Combinable(c_data) =>
        /\ c_phase = "combined" => c_result.st = "ok"
        /\ c_phase = "written" => c_out.st = "ok"
        /\ c_phase = "reparsed" =>
            /\ Len(c_back) = Cardinality(DOMAIN c_result.run.observations)
            /\ \A i \in DOMAIN c_back :
                /\ c_back[i].st = "rec"
                /\ \E o \in DOMAIN c_result.run.observations :
                       c_back[i].rec.observations = (o :> c_result.run.observations[o])

\* the orders in which a list can be handed over
Reorderings(data) ==
    {[i \in DOMAIN data |-> data[p[i]]] :
        p \in {q \in [DOMAIN data -> DOMAIN data] : \A i, j \in DOMAIN data :
                                                       q[i] = q[j] => i = j}}

\* C2: for N_ERRORS_PER_BURST records of one masked identity, combine_runs gives
\* the same histograms for every order of the list, and combining the first two
\* records and then the third gives the histograms of combining all three.
C2_MergeCommutativeAssociative ==
    (c_phase = "combined" /\ AllOfKind(c_data, OBS_N_ERRORS_PER_BURST)
     /\ Combinable(c_data)) =>
        /\ c_result.st = "ok"
        /\ \A d \in Reorderings(c_data) :
               LET r == combine_runs(d, fields_to_combine)
               IN  r.st = "ok" /\ r.run.observations = c_result.run.observations
        /\ Len(c_data) = 3 =>
               LET ab == combine_runs(SubSeq(c_data, 1, 2), fields_to_combine)
                   abc == combine_runs(<<ab.run, c_data[3]>>, fields_to_combine)
               IN  /\ ab.st = "ok"
                   /\ abc.st = "ok"
                   /\ abc.run.observations = c_result.run.observations

\* C8: when a record of the list does not have the masked identity of the first
\* record, combine_runs fails with an assertion that names such a record, and
\* returns nothing.
C8_MaskedIdentityPrecondition ==
    (c_phase = "combined" /\ ~SharedIdentity(c_data)) =>
        /\ c_result.st = "raise"
        /\ c_result.exc = "AssertionError"
        /\ c_result.culprit \in 2 .. Len(c_data)
        /\ c_data[c_result.culprit].uid_ignoring_fields # c_data[1].uid_ignoring_fields
        /\ c_result.run = NoneV

\* C8 witness: the second record has the identity of the first and the third
\* does not, and the call failed naming the third
C8_Witness ==
    /\ c_phase = "combined"
    /\ Len(c_data) = 3
    /\ c_data[2].uid_ignoring_fields = c_data[1].uid_ignoring_fields
    /\ c_data[3].uid_ignoring_fields # c_data[1].uid_ignoring_fields
    /\ c_result.exc = "AssertionError"
    /\ c_result.culprit = 3

\* C9: over records of one masked identity, combine_runs fails and returns
\* nothing when the burst lengths, or the observable kinds, are not all equal;
\* a record it returns has the burst length and the observable of every input.
C9_ErrorOnMismatch ==
    (c_phase = "combined" /\ SharedIdentity(c_data)) =>
        /\ (~SameField(c_data, MI_BL) \/ ~SameField(c_data, MI_OBS)) =>
               c_result.st = "raise" /\ c_result.run = NoneV
        /\ c_result.st = "ok" =>
               \A j \in DOMAIN c_data :
                   /\ c_result.run.metadata[MI_BL + 1] = c_data[j].metadata[MI_BL + 1]
                   /\ c_result.run.metadata[MI_OBS + 1] = c_data[j].metadata[MI_OBS + 1]

\* C9 witness: two records of one masked identity and different burst lengths
\* were refused
C9_Witness ==
    /\ c_phase = "combined"
    /\ Len(c_data) = 2
    /\ SharedIdentity(c_data)
    /\ ~SameField(c_data, MI_BL)
    /\ SameField(c_data, MI_OBS)
    /\ c_result.st = "raise"

\* C10: combining two records of one masked identity whose burst codeword
\* lengths, or pad sizes, differ returns a record whose field is -1.
C10_WarnAndMark ==
    (c_phase = "combined" /\ Len(c_data) = 2 /\ SharedIdentity(c_data)
     /\ SameField(c_data, MI_BL) /\ SameField(c_data, MI_OBS)
     /\ AllOfKind(c_data, OBS_PER_BIT_ERROR_COUNT)) =>
        /\ ~SameField(c_data, MI_BCL) =>
               c_result.st = "ok" /\ c_result.run.metadata[MI_BCL + 1] = IntV(-1)
        /\ ~SameField(c_data, MI_PS) =>
               c_result.st = "ok" /\ c_result.run.metadata[MI_PS + 1] = IntV(-1)

\* the summed repair (c = 1) or uncorrectable (c = 2) count of n over the list
SummedCount(data, n, c) ==
    SumSeq([j \in DOMAIN data |->
               LET raw == data[j].observations[OBS_N_ERRORS_PER_BURST].raw_data
               IN  IF n \in DOMAIN raw THEN raw[n][c] ELSE 0])

\* C11: combine_runs on N_ERRORS_PER_BURST records of one masked identity
\* returns raw, repair-event and uncorrectable-event histograms that are the
\* per-category sums of the inputs' histograms, with rber and uber recomputed
\* from the merged histograms and the combined record's burst_codeword_length,
\* pad_size and burst_length.
C11_NErrorsHistogramSums ==
    (c_phase = "combined" /\ AllOfKind(c_data, OBS_N_ERRORS_PER_BURST)
     /\ Combinable(c_data)) =>
        /\ c_result.st = "ok"
        /\ LET o == c_result.run.observations[OBS_N_ERRORS_PER_BURST]
               md == c_result.run.metadata
               keys == UNION {DOMAIN c_data[j].observations[OBS_N_ERRORS_PER_BURST].raw_data :
                                 j \in DOMAIN c_data}
           IN  /\ DOMAIN o.raw_data = keys
               /\ \A n \in keys :
                      o.raw_data[n] = <<SummedCount(c_data, n, 1), SummedCount(c_data, n, 2)>>
               /\ DOMAIN o.re_data = {n \in keys : SummedCount(c_data, n, 1) > 0}
               /\ \A n \in DOMAIN o.re_data : o.re_data[n] = SummedCount(c_data, n, 1)
               /\ DOMAIN o.ue_data = {n \in keys : SummedCount(c_data, n, 2) > 0}
               /\ \A n \in DOMAIN o.ue_data : o.ue_data[n] = SummedCount(c_data, n, 2)
               /\ o.re_data # EmptyDict =>
                      o.rber = Frac(SumWeighted(o.re_data),
                                    (md[MI_BCL + 1].i - md[MI_PS + 1].i) * SumValues(o.re_data))
               /\ o.uber = Frac(SumWeighted(o.ue_data),
                                md[MI_BL + 1].i * SumValues(o.ue_data))

\* the per-bit sequences of the j-th record
PerBitOf(data, j) == data[j].observations[OBS_PER_BIT_ERROR_COUNT]

\* all records have hist_databurst of one length and hist_codeburst of one length
SameLengths(data) ==
    \A j \in DOMAIN data :
        /\ Len(PerBitOf(data, j).hist_databurst) = Len(PerBitOf(data, 1).hist_databurst)
        /\ Len(PerBitOf(data, j).hist_codeburst) = Len(PerBitOf(data, 1).hist_codeburst)

\* the position-wise sum of the sequences named field
PositionSums(data, field) ==
    [i \in DOMAIN PerBitOf(data, 1)[field] |->
        SumSeq([j \in DOMAIN data |-> PerBitOf(data, j)[field][i]])]

\* C12: combine_runs on PER_BIT_ERROR_COUNT records fails with an assertion
\* unless all inputs have hist_databurst of one length and hist_codeburst of one
\* length, inputs with empty sequences included; when the lengths agree, each
\* output sequence is the position-wise sum of the inputs' sequences.
C12_PerBitLengthCheck ==
    (c_phase = "combined" /\ AllOfKind(c_data, OBS_PER_BIT_ERROR_COUNT)
     /\ SharedIdentity(c_data)
     /\ \A elem \in {MI_BL, MI_BCL, MI_PS, MI_OBS} : SameField(c_data, elem)
     /\ \A j \in DOMAIN c_data : c_data[j].metadata[MI_NW + 1] # IntV(-1)) =>
        IF SameLengths(c_data)
        THEN /\ c_result.st = "ok"
             /\ c_result.run.observations[OBS_PER_BIT_ERROR_COUNT] =
                    [hist_databurst |-> PositionSums(c_data, "hist_databurst"),
                     hist_codeburst |-> PositionSums(c_data, "hist_codeburst")]
        ELSE c_result.st = "raise" /\ c_result.exc = "AssertionError"

(***************************************************************************)
(* Properties of the run identity.                                         *)
(***************************************************************************)
\* the fields in which the two records differ
Differing == {i \in 1 .. MI_MAX : u_md1[i] # u_md2[i]}
Masked(i) == KeyName[i] \in fields_to_combine

\* C6 as stated: the masked identity is the same when only masked fields
\* differ, and is different whenever an unmasked field differs, absent against
\* present included; the unmasked identity is the masked identity of the empty
\* mask.
C6_IdentityMasking ==
    /\ (\A i \in Differing : Masked(i)) => u_id1 = u_id2
    /\ (\E i \in Differing : ~Masked(i)) => u_id1 # u_id2
    /\ run_uid_from_metadata(u_md2) = run_uid_from_metadata_ignoring_fields(u_md2, {})

\* C6: two records have the same masked identity exactly when every unmasked
\* field has the same text str(value) in both, an absent field having the text
\* -1 of a field present with the value -1; the unmasked identity is the masked
\* identity of the empty mask.
C6_IdentityMaskingByText ==
    /\ u_id1 = u_id2 <=>
           \A i \in 1 .. MI_MAX : ~Masked(i) => PyStr(u_md1[i]) = PyStr(u_md2[i])
    /\ (\A i \in Differing : Masked(i)) => u_id1 = u_id2
    /\ run_uid_from_metadata(u_md2) = run_uid_from_metadata_ignoring_fields(u_md2, {})

\* C6 witness: the burst length is masked and was changed, the error model is
\* not masked and went from absent to present with the text -1, and the
\* identity is the same
C6_Witness ==
    /\ fields_to_combine = {"bl"}
    /\ Differing = {MI_BL + 1, MI_EM + 1}
    /\ u_md1[MI_EM + 1] = IntV(-1)
    /\ u_md2[MI_EM + 1] = StrV("-1")
    /\ u_id1 = u_id2
    /\ u_id2 = run_uid_from_metadata_ignoring_fields(u_md2, fields_to_combine)


(***************************************************************************)
(* Properties of the likelihood evaluator.                                 *)
(***************************************************************************)
\* the models evaluated against an observation, the models it retains, and
\* the score of a model: the largest log-likelihood over its samples
Evaluated(exp_uid) == DOMAIN log_probabilities[exp_uid]
Retained(exp_uid) == {a.uid : a \in top_n_models_heapq[exp_uid]}
ScoreOf(exp_uid, sim_uid) == MaxOf(log_probabilities[exp_uid][sim_uid])

\* C13: for each observation the retained set holds min(20, number of models
\* evaluated) entries, each kept with its score, and no retained model has a
\* score below that of a model that was evicted or refused.
C13_TopKBound ==
    \A exp_uid \in DOMAIN log_probabilities :
        LET n == Cardinality(Evaluated(exp_uid))
            heap == top_n_models_heapq[exp_uid]
        IN  /\ Cardinality(heap) = IF n < 20 THEN n ELSE 20
            /\ Cardinality(Retained(exp_uid)) = Cardinality(heap)
            /\ Retained(exp_uid) \subseteq Evaluated(exp_uid)
            /\ DOMAIN top_n_models_data[exp_uid].sims = Retained(exp_uid)
            /\ \A a \in heap :
                   /\ a.logprob = ScoreOf(exp_uid, a.uid)
                   /\ \A u \in Evaluated(exp_uid) \ Retained(exp_uid) :
                          ~ScoreLess(a.logprob, ScoreOf(exp_uid, u))

\* C13 witness: more than 20 models were evaluated against an observation; one
\* of the first 20, which had entered, was evicted, a later one was refused,
\* and a retained model scores above a model that is not retained
C13_Witness ==
    \E exp_uid \in DOMAIN log_probabilities :
        LET lost == Evaluated(exp_uid) \ Retained(exp_uid)
        IN  /\ Cardinality(Evaluated(exp_uid)) > 20
            /\ Cardinality(top_n_models_heapq[exp_uid]) = 20
            /\ \E u \in lost : PyInt(u[4][2]) <= 20
            /\ \E u \in lost : PyInt(u[4][2]) > 20
            /\ \E a \in top_n_models_heapq[exp_uid] : \E u \in lost :
                   ScoreLess(ScoreOf(exp_uid, u), a.logprob)

\* C14: for every model evaluated against an observation of burst length bl,
\* the probability vector has one entry for each category 0..bl, in the order
\* of the categories and aligned with every count vector; every entry is above
\* zero, a category the model histogram lacks has 1e-10; and every
\* log-likelihood is a finite number (the evaluation does not fail either).
C14_LikelihoodFloor ==
    e_last.st \in {"ok", "raise"} =>
        LET bl == NoPBurstLength(e_last.exp_data.metadata)
            s_histogram == e_last.sim_data.ue_data
            samples == e_last.o_sample_histograms
        IN  /\ e_last.exc \in {"", "AssertionError"}
            /\ DOMAIN s_histogram \subseteq 0 .. bl
            /\ Len(e_last.s_pmf) = bl + 1
            /\ \A i \in 0 .. bl :
                   LET p == e_last.s_pmf[i + 1]
                   IN  IF i \in DOMAIN s_histogram
                       THEN /\ ~p.floor
                            /\ p.num = s_histogram[i] /\ p.den = SumValues(s_histogram)
                            /\ p.num > 0 /\ p.den > 0
                       ELSE p.floor
            /\ DOMAIN e_last.xs = DOMAIN samples
            /\ \A j \in DOMAIN e_last.xs :
                   /\ Len(e_last.xs[j]) = bl + 1
                   /\ \A i \in 0 .. bl :
                          e_last.xs[j][i + 1] = IF i \in DOMAIN samples[j]
                                                THEN samples[j][i] ELSE 0
            /\ DOMAIN e_last.log_probs = DOMAIN samples
            /\ \A j \in DOMAIN e_last.log_probs : e_last.log_probs[j].st = "finite"

\* C14 witness: a model was evaluated whose histogram lacks a category in
\* which a sample of the observation has counts
C14_Witness ==
    /\ e_last.st = "ok"
    /\ \E j \in DOMAIN e_last.xs : \E i \in DOMAIN e_last.s_pmf :
           e_last.s_pmf[i].floor /\ e_last.xs[j][i] > 0
    /\ \E i \in DOMAIN e_last.s_pmf : ~e_last.s_pmf[i].floor

(***************************************************************************)
(* Properties of the histogram fold and of the rates.                      *)
(***************************************************************************)
\* the n:re:ue entries of an N_ERRORS_PER_BURST line of the keyed format
TriplesOf(line) == SelectSeq(PayloadOf(line), LAMBDA w : Len(w) >= 2)

\* the summed repair (c = 2) or uncorrectable (c = 3) count of n over triples
TripleSum(data, n, c) ==
    SumSeq([i \in DOMAIN data |-> IF PyInt(data[i][1]) = n THEN PyInt(data[i][c]) ELSE 0])

\* triples with non-negative counts, no positive count over its bound
FoldInput(data, bl, bcl) ==
    \A i \in DOMAIN data :
        /\ TripleOk(data[i])
        /\ PyInt(data[i][1]) >= 0 /\ PyInt(data[i][2]) >= 0 /\ PyInt(data[i][3]) >= 0
        /\ PyInt(data[i][2]) > 0 => PyInt(data[i][1]) <= bcl
        /\ PyInt(data[i][3]) > 0 => PyInt(data[i][1]) <= bl

\* a line of the keyed format that carries such triples
NErrorsLine(line) ==
    /\ Len(line) >= 1 /\ line[1] = DATA
    /\ Cardinality(BracketAt(Tail(line))) = 1
    /\ \A i \in DOMAIN MetaOf(line) : Len(MetaOf(line)[i]) >= 2
    /\ IntSlotsOk(MetaOf(line))
    /\ HasKey(MetaOf(line), "obs")
    /\ Extracted(MetaOf(line), "obs") = OBS_N_ERRORS_PER_BURST
    /\ LET md == ExtractMetadata(MetaOf(line))
       IN  FoldInput(TriplesOf(line), md[MI_BL + 1].i, md[MI_BCL + 1].i)

\* the three histograms are the per-category sums of the triples
FoldedAs(raw, re, ue, data) ==
    LET keys == {PyInt(data[i][1]) : i \in DOMAIN data}
    IN  /\ DOMAIN raw = keys
        /\ \A n \in keys : raw[n] = <<TripleSum(data, n, 2), TripleSum(data, n, 3)>>
        /\ DOMAIN re = {n \in keys : TripleSum(data, n, 2) > 0}
        /\ \A n \in DOMAIN re : re[n] = TripleSum(data, n, 2)
        /\ DOMAIN ue = {n \in keys : TripleSum(data, n, 3) > 0}
        /\ \A n \in DOMAIN ue : ue[n] = TripleSum(data, n, 3)

\* parse_all_files: the triples of every parsed line filed under a run_uid, in
\* the order the lines were read
RECURSIVE FiledTriples(_, _)
FiledTriples(uid, k) ==
    IF k = 0 THEN <<>>
    ELSE LET rec == parsed_line[lg_parsed_at[k][3]].rec
         IN  FiledTriples(uid, k - 1)
             \o (IF LegacyUid(rec.metadata, lg_experimental, k - 1) = uid
                 THEN rec.data ELSE <<>>)

\* the fold of the line parser: a line of triples is delivered with the sums
C15_ParserFold ==
    (pc # "idle" /\ ~is_experimental /\ last_line # <<>> /\ NErrorsLine(last_line)) =>
        /\ last_exc = ""
        /\ calls # <<>>
        /\ LET o == calls[Len(calls)].data.observations[OBS_N_ERRORS_PER_BURST]
           IN  FoldedAs(o.raw_data, o.re_data, o.ue_data, TriplesOf(last_line))

\* the fold of parse_all_files: every run_uid ends with the sums of its lines
C15_FileFold ==
    (lg_entry = "all" /\ lg_pc = "done") =>
        \A i \in DOMAIN lg_raw_data :
            LET r == lg_raw_data[i].result
            IN  FoldedAs(r.raw_data, r.re_data, r.ue_data,
                         FiledTriples(lg_raw_data[i].uid, Len(lg_parsed_at)))

\* C15: folding triples with non-negative counts gives raw[n] = the summed
\* (repair, uncorrectable) pair of n, a repair-event entry for n exactly when the
\* summed repair count is positive and then equal to it, the same for the
\* uncorrectable-event histogram, whatever the order of the triples; for the
\* line parser and for parse_all_files.
C15_FoldIsPureSum == C15_ParserFold /\ C15_FileFold

\* what the recorded line LG_example stands for: its histograms and rates
ExampleHistograms(d) ==
    /\ d.raw_data = (0 :> <<9998, 10000>> @@ 1 :> <<2, 0>>)
    /\ d.re_data = (0 :> 9998 @@ 1 :> 2)
    /\ d.ue_data = (0 :> 10000)
    /\ d.uber[1] = 0 /\ d.uber[2] # 0
    /\ d.rber[2] # 0 /\ d.rber[1] * 7680000 = 2 * d.rber[2]

\* parse_files_incremental of script/utils.py delivers the line with them
ExampleReadLegacy ==
    (lg_entry = "incremental" /\ lg_last_line = LG_example) =>
        /\ lg_last_exc = ""
        /\ lg_calls # <<>>
        /\ lg_calls[Len(lg_calls)].line = lg_line_num
        /\ ExampleHistograms(lg_calls[Len(lg_calls)].data)

NoUncorrectable(data) == \A i \in DOMAIN data : PyInt(data[i][3]) = 0

\* a line of the positional format whose fold succeeds
LegacyFoldInput(line) ==
    /\ parsed_line[line].st = "rec"
    /\ LET rec == parsed_line[line].rec
       IN  FoldInput(rec.data, LegacySlot(rec.metadata, "bl").i,
                     LegacySlot(rec.metadata, "bcl").i)

\* C17: a run whose uncorrectable-event histogram is empty gets a sentinel
\* uber instead of a division-by-zero error: such a line is delivered by
\* parse_files_incremental and by the line parser, and neither reader of
\* script/utils.py ends with ZeroDivisionError.
C17_UberGuarded ==
    /\ lg_abort_exc # "ZeroDivisionError"
    /\ (lg_entry = "incremental" /\ lg_last_line # <<>> /\ LegacyFoldInput(lg_last_line)
        /\ NoUncorrectable(parsed_line[lg_last_line].rec.data)) =>
           /\ lg_last_exc = ""
           /\ lg_calls # <<>> /\ lg_calls[Len(lg_calls)].line = lg_line_num
    /\ (pc # "idle" /\ ~is_experimental /\ last_line # <<>> /\ NErrorsLine(last_line)
        /\ NoUncorrectable(TriplesOf(last_line)) /\ last_exc # "KeyboardInterrupt") =>
           /\ last_exc = ""
           /\ calls # <<>> /\ calls[Len(calls)].line = line_num

(***************************************************************************)
(* Properties of the reducer: lines without a usable obs field, and the    *)
(* ECC descriptor.                                                         *)
(***************************************************************************)
\* a [DATA] line whose metadata has no obs key
NoObsLine(line) ==
    /\ Len(line) >= 1 /\ line[1] = DATA
    /\ Cardinality(BracketAt(Tail(line))) = 1
    /\ \A i \in DOMAIN MetaOf(line) : MetaOf(line)[i][1] # "obs"

\* the step that reads a no-obs line, and the step that reads the line after it
NoObsStep ==
    /\ \A line \in LinePool :
          (pc = "run" /\ NoObsLine(line) /\ lines_read' = lines_read + 1
           /\ last_line' = line /\ last_exc' # "KeyboardInterrupt") =>
              /\ parsed_data_of[line, fields_to_combine, is_experimental].st = "raise"
              /\ last_exc' # ""
              /\ calls' = calls
              /\ parsed_at' = parsed_at
              /\ pc' = "run" /\ infile' = infile
    /\ (pc = "run" /\ last_line # <<>> /\ NoObsLine(last_line)
        /\ lines_read' = lines_read + 1 /\ last_exc' # "KeyboardInterrupt") =>
              /\ infile' = infile /\ line_num' = line_num + 1
              /\ parsed_data_of[last_line', fields_to_combine, is_experimental].st = "rec" =>
                     /\ Len(calls') = Len(calls) + 1
                     /\ calls'[Len(calls')].line = line_num'

\* C18: a [DATA] line without an obs key makes the line parser raise; the
\* reducer makes no callback for it, keeps running, and handles the next line
\* of the file as any other line.
C18_NoObsFailsTheLine == [][NoObsStep]_vars

\* C18 witness: a record was delivered, then a line without obs failed, and the
\* reducer is still reading the file
C18_Witness ==
    /\ pc = "run"
    /\ last_line = L_noobs
    /\ last_exc = "AssertionError"
    /\ malformed_line = line_num
    /\ calls # <<>>
    /\ calls[Len(calls)].file = infile
    /\ calls[Len(calls)].line = line_num - 1

\* a [DATA] line whose obs value is neither of the two observables
UnknownObsLine(line) ==
    /\ Len(line) >= 1 /\ line[1] = DATA
    /\ Cardinality(BracketAt(Tail(line))) = 1
    /\ \A i \in DOMAIN MetaOf(line) : Len(MetaOf(line)[i]) >= 2
    /\ IntSlotsOk(MetaOf(line))
    /\ HasKey(MetaOf(line), "obs")
    /\ Extracted(MetaOf(line), "obs") \notin OBSERVABLES

\* C19: for a [DATA] line with an unknown obs value, experimental source or
\* not, the line parser warns and returns None without raising; the reducer
\* makes no callback for the line and does not take it for a malformed line.
C19_UnknownObservableSoftSkip ==
    (pc # "idle" /\ last_line # <<>> /\ UnknownObsLine(last_line)
     /\ last_exc # "KeyboardInterrupt") =>
        /\ parsed_data_of[last_line, fields_to_combine, is_experimental] = RetNone(TRUE)
        /\ last_exc = ""
        /\ malformed_line # line_num
        /\ \A i \in DOMAIN calls : ~(calls[i].file = infile /\ calls[i].line = line_num)

\* the descriptor of the last [ECC] line read so far in the current file
DescriptorSeen ==
    IF infilenames[infile] \in DOMAIN ecc_codes THEN ecc_codes[infilenames[infile]]
    ELSE NoneV

\* C20: a record parsed after one or more [ECC] lines of its file is handed to
\* the callback together with the descriptor of the most recent of them, and
\* with no descriptor only when no [ECC] line came before it in the file.
C20_DescriptorAtCallback ==
    (pc = "run" /\ calls # <<>> /\ calls[Len(calls)].file = infile
     /\ calls[Len(calls)].line = line_num) =>
        calls[Len(calls)].ecc = DescriptorSeen

\* the entries of ecc_codes for the files other than the one being read
OtherFilesKept ==
    \A f \in DOMAIN infilenames :
        f # infile =>
            /\ infilenames[f] \in DOMAIN ecc_codes' <=> infilenames[f] \in DOMAIN ecc_codes
            /\ infilenames[f] \in DOMAIN ecc_codes =>
                   ecc_codes'[infilenames[f]] = ecc_codes[infilenames[f]]

\* one step of the reducer, seen from the mapping it returns
EccCodesStep ==
    /\ lines_read = 0 => ecc_codes = EmptyDict
    /\ OtherFilesKept
    /\ IF /\ pc = "run" /\ lines_read' = lines_read + 1
          /\ Len(last_line') >= 2 /\ last_line'[1] = <<"[ECC]">>
          /\ last_line'[2][1] \in {"{\"uid\":3}", "{}"}
          /\ last_exc' # "KeyboardInterrupt"
       THEN /\ infilenames[infile] \in DOMAIN ecc_codes'
            /\ ecc_codes'[infilenames[infile]] =
                   (IF last_line'[2][1] = "{}" THEN EmptyDict ELSE ("uid" :> 3))
            /\ pc' = "run"
       ELSE ecc_codes' = ecc_codes

\* C21: the mapping the reducer returns holds, for each file with an [ECC]
\* line, the decoded descriptor of the last such line of that file (a later
\* line overwrites an earlier one), no entry for a file without one, and the
\* entry of one file is not changed while another file is read.
C21_EccCodesPerFile == [][EccCodesStep]_vars

\* C21 witness: the reducer returned a mapping with a descriptor for each of
\* the two files
C21_Witness ==
    /\ pc = "done"
    /\ ecc_codes = ("a.txt" :> ("uid" :> 3)) @@ ("b.txt.gz" :> EmptyDict)

\* C22: the aggregation reads no field of an ECC descriptor: whatever JSON
\* object an [ECC] line holds, the run goes on to combine the records once
\* the reducer has returned.
C22_DescriptorOpaque == ~(pc = "abort" /\ abort_exc = "KeyError")

(***************************************************************************)
(* The malformed-line warning.                                             *)
(***************************************************************************)
\* warnings and the once-per-file flag agree with the lines that raised so far
WarnedOnce ==
    /\ \A f \in DOMAIN infilenames :
           /\ n_warnings[f] = (IF n_raised[f] >= 1 THEN 1 ELSE 0)
           /\ lg_n_warnings[f] = (IF lg_n_raised[f] >= 1 THEN 1 ELSE 0)
    /\ pc = "run" => ((malformed_line = -1) <=> (n_raised[infile] = 0))
    /\ lg_pc = "run" => ((lg_malformed_line = -1) <=> (lg_n_raised[lg_infile] = 0))
    /\ malformed_line <= line_num
    /\ lg_malformed_line <= lg_line_num

\* a step of the reducer of script/utils/utils.py: the warning goes with the
\* first raising line of the file, and a new file starts with the flag reset
WarnStep ==
    /\ IF n_raised' # n_raised /\ n_raised[infile] = 0
       THEN /\ n_warnings' = [n_warnings EXCEPT ![infile] = @ + 1]
            /\ malformed_line' = line_num'
       ELSE /\ n_warnings' = n_warnings
            /\ infile' = infile => malformed_line' = malformed_line
    /\ n_raised' # n_raised => pc' = "run" /\ line_num' = line_num + 1
    /\ infile' # infile => malformed_line' = -1 /\ n_raised[infile'] = 0

\* the same step of the readers of script/utils.py
LegacyWarnStep ==
    /\ IF lg_n_raised' # lg_n_raised /\ lg_n_raised[lg_infile] = 0
       THEN /\ lg_n_warnings' = [lg_n_warnings EXCEPT ![lg_infile] = @ + 1]
            /\ lg_malformed_line' = lg_line_num'
       ELSE /\ lg_n_warnings' = lg_n_warnings
            /\ lg_infile' = lg_infile /\ lg_pc' # "combine"
                   => lg_malformed_line' = lg_malformed_line
    /\ lg_n_raised' # lg_n_raised => lg_pc' = "run" /\ lg_line_num' = lg_line_num + 1
    /\ lg_infile' # lg_infile /\ lg_pc' = "run"
           => lg_malformed_line' = -1 /\ lg_n_raised[lg_infile'] = 0

\* C23: per file the malformed-line warning is printed for the first line whose
\* parsing raises and for no later one: one warning for a file with malformed
\* lines, none for a file without, later malformed lines are still parsed, and
\* the flag is reset when the next file starts.
C23_WarnOncePerFile == []WarnedOnce /\ [][WarnStep /\ LegacyWarnStep]_vars

\* two malformed lines in the first file and one in the second, one warning each
C23_Witness ==
    /\ pc = "run" /\ infile = 2
    /\ n_raised[1] = 2 /\ n_warnings[1] = 1
    /\ n_raised[2] = 1 /\ n_warnings[2] = 1
    /\ malformed_line = line_num

\* the same in the reader of script/utils.py
C23_LegacyWitness ==
    /\ lg_pc = "run" /\ lg_entry = "incremental" /\ lg_infile = 2
    /\ lg_n_raised[1] = 2 /\ lg_n_warnings[1] = 1
    /\ lg_n_raised[2] = 1 /\ lg_n_warnings[2] = 1

(***************************************************************************)
(* The combined n_words.                                                   *)
(***************************************************************************)
\* the n_words of the records handed to combine_runs
WordList == [j \in DOMAIN c_data |-> c_data[j].metadata[MI_NW + 1]]
AnyUnknownWords == \E j \in DOMAIN WordList : WordList[j] = IntV(-1)

\* -1 when an input is unknown, the sum otherwise
ExpectedWords ==
    IF AnyUnknownWords THEN IntV(-1)
    ELSE IntV(SumSeq([j \in DOMAIN WordList |-> WordList[j].i]))

\* a CombinedRun that was returned has the expected n_words
NWordsWhenReturned ==
    c_phase \in {"combined", "written", "reparsed"} /\ c_result.st = "ok"
        => c_result.run.metadata[MI_NW + 1] = ExpectedWords

\* C24: the combined n_words is -1 if any input has n_words -1, all of them or
\* only some, and the sum of the inputs' n_words otherwise; unknown n_words is
\* not by itself a reason for the combination to fail.
C24_NWordsCombined ==
    /\ NWordsWhenReturned
    /\ c_phase \in {"combined", "written", "reparsed"} /\ AnyUnknownWords
           => c_result.exc # "UnboundLocalError"

(***************************************************************************)
(* The burst-length guard of the evaluator.                                *)
(***************************************************************************)
\* bl of a metadata tuple without p: ecc_category, t, k, n, m, rber, bl, ...
BurstLengthField(metadata) == metadata[7]

\* the last call compared a model and an observation of different burst lengths
BurstLengthsDiffer ==
    BurstLengthField(e_last.sim_data.metadata) # BurstLengthField(e_last.exp_data.metadata)

\* the callback skips exactly the models of another burst length
SkipsOnMismatch == e_last.st # "none" => (e_last.st = "skip" <=> BurstLengthsDiffer)

\* a line whose callback returned at the guard leaves the three globals alone
\* and the file is read on
SkipStep ==
    e_line_num' = e_line_num + 1 /\ e_last'.st = "skip"
        => /\ log_probabilities' = log_probabilities
           /\ top_n_models_heapq' = top_n_models_heapq
           /\ top_n_models_data' = top_n_models_data
           /\ e_pc' = "read" /\ e_exc' = ""

\* C25: when a simulated model's burst length differs from the observation's the
\* callback warns and returns without evaluating: the log-probability table, the
\* top-K heap and the retained-model data of every observation are unchanged.
C25_BurstLengthGuard == []SkipsOnMismatch /\ [][SkipStep]_vars

\* a model was skipped after others had been evaluated and kept
C25_Witness ==
    /\ e_last.st = "skip"
    /\ BurstLengthsDiffer
    /\ log_probabilities # EmptyDict
    /\ \E u \in DOMAIN top_n_models_data : DOMAIN top_n_models_data[u].sims # {}

(***************************************************************************)
(* Bootstrap samples of an observation.                                    *)
(***************************************************************************)
\* log-likelihoods a model gets: one without bootstrapping, one per resample with
ExpectedLogProbs == IF n_bootstrap_samples = 0 THEN 1 ELSE n_bootstrap_samples

\* the samples built for the observation being evaluated
SamplesOfObservation ==
    e_pc = "read" =>
        LET o_histogram == observations[e_obs].data.ue_data
        IN  /\ Len(o_sample_histograms) = ExpectedLogProbs
            /\ n_bootstrap_samples = 0 => o_sample_histograms = <<o_histogram>>
            /\ \A j \in DOMAIN o_sample_histograms :
                   /\ DOMAIN o_sample_histograms[j] = DOMAIN o_histogram
                   /\ SumValues(o_sample_histograms[j]) = SumValues(o_histogram)

\* what the last evaluated model was given and what it got
LogProbsOfLastModel ==
    e_last.st = "ok" =>
        /\ Len(e_last.o_sample_histograms) = ExpectedLogProbs
        /\ Len(e_last.log_probs) = ExpectedLogProbs
        /\ n_bootstrap_samples = 0 =>
               /\ e_last.o_sample_histograms[1] = e_last.exp_data.ue_data
               /\ \A n_errs \in DOMAIN e_last.exp_data.ue_data :
                      e_last.xs[1][n_errs + 1] = e_last.exp_data.ue_data[n_errs]
        /\ \A j \in DOMAIN e_last.log_probs :
               /\ e_last.log_probs[j]
                      = LogProb(e_last.xs[j], e_last.s_pmf,
                                SumValues(e_last.exp_data.ue_data))
               /\ SumSeq(e_last.xs[j]) = SumValues(e_last.exp_data.ue_data)

\* C26: with n_bootstrap_samples = 0 every evaluated model gets exactly one
\* log-likelihood, computed on the observed histogram as it is; with n > 0 it
\* gets exactly n, one per resample, every resample has the total count of the
\* observed histogram, and the observed histogram is not one more sample.
C26_BootstrapSamples ==
    /\ SamplesOfObservation
    /\ LogProbsOfLastModel
    /\ \A u \in DOMAIN log_probabilities : \A s \in DOMAIN log_probabilities[u] :
           Len(log_probabilities[u][s]) = ExpectedLogProbs

\* a model evaluated on two resamples that differ from each other and from the
\* observed histogram
C26_Witness ==
    /\ n_bootstrap_samples = MaxSamples
    /\ e_last.st = "ok"
    /\ Len(e_last.log_probs) = MaxSamples
    /\ e_last.o_sample_histograms[1] # e_last.o_sample_histograms[2]
    /\ \A j \in DOMAIN e_last.o_sample_histograms :
           e_last.o_sample_histograms[j] # e_last.exp_data.ue_data

\* a model evaluated once, on the observed histogram
C26_WitnessNoBootstrap ==
    /\ n_bootstrap_samples = 0
    /\ e_last.st = "ok"
    /\ Len(e_last.log_probs) = 1

(***************************************************************************)
(* combine_runs on every list of one masked identity.                      *)
(***************************************************************************)
\* the observable kinds of the records handed to combine_runs
KindsPresent == UNION {DOMAIN c_data[j].observations : j \in DOMAIN c_data}

\* the records agree where a disagreement is an error: masked identity, burst
\* length, observable, and the lengths of the per-bit sequences
SameWhereRequired ==
    /\ MismatchAt(c_data) = {}
    /\ Cardinality(AllElem(c_data, MI_BL)) = 1
    /\ Cardinality(AllElem(c_data, MI_OBS)) = 1
    /\ \A i, j \in DOMAIN c_data :
           OBS_PER_BIT_ERROR_COUNT \in DOMAIN c_data[i].observations
                                       \cap DOMAIN c_data[j].observations
           => LET a == c_data[i].observations[OBS_PER_BIT_ERROR_COUNT]
                  b == c_data[j].observations[OBS_PER_BIT_ERROR_COUNT]
              IN  /\ Len(a.hist_databurst) = Len(b.hist_databurst)
                  /\ Len(a.hist_codeburst) = Len(b.hist_codeburst)

\* C27: combine_runs returns a CombinedRun for every non-empty list of records
\* of one masked identity, a list of one record included, whose histograms it
\* reproduces; the result has a merged observation for each observable kind
\* present in the inputs.
C27_CombinesEveryList ==
    c_phase \in {"combined", "written", "reparsed"} /\ SameWhereRequired
        => /\ c_result.st = "ok"
           /\ DOMAIN c_result.run.observations = KindsPresent
           /\ Len(c_data) = 1 /\ OBS_PER_BIT_ERROR_COUNT \in KindsPresent
                  => c_result.run.observations = c_data[1].observations

\* what holds of the lists combine_runs does return for
KindsWhenReturned ==
    c_phase \in {"combined", "written", "reparsed"} /\ c_result.st = "ok"
        => /\ DOMAIN c_result.run.observations = KindsPresent
           /\ Len(c_data) = 1 => c_result.run.observations = c_data[1].observations

(***************************************************************************)
(* The heap and the retained-model data of an observation.                 *)
(***************************************************************************)
\* heap and retained data hold the same models, each once, at most 20
HeapMatchesData ==
    /\ DOMAIN top_n_models_heapq = DOMAIN top_n_models_data
    /\ \A exp_uid \in DOMAIN top_n_models_heapq :
           /\ Retained(exp_uid) = DOMAIN top_n_models_data[exp_uid].sims
           /\ Cardinality(top_n_models_heapq[exp_uid]) = Cardinality(Retained(exp_uid))
           /\ Cardinality(top_n_models_heapq[exp_uid]) <= max_n_models_to_plot
           /\ Cardinality(DOMAIN top_n_models_data[exp_uid].sims) <= max_n_models_to_plot

\* a call for one observation leaves what is kept for the others as it was
OtherObservationsKept ==
    e_pc = "read" =>
        /\ \A exp_uid \in DOMAIN top_n_models_heapq :
               exp_uid # observations[e_obs].uid
               => /\ exp_uid \in DOMAIN top_n_models_heapq'
                  /\ top_n_models_heapq'[exp_uid] = top_n_models_heapq[exp_uid]
                  /\ top_n_models_data'[exp_uid] = top_n_models_data[exp_uid]
        /\ \A exp_uid \in DOMAIN log_probabilities :
               exp_uid # observations[e_obs].uid
               => /\ exp_uid \in DOMAIN log_probabilities'
                  /\ log_probabilities'[exp_uid] = log_probabilities[exp_uid]

\* C28: after every call of the callback, for each observation the model
\* identifiers in the top-K heap are the keys of the retained-model data, each
\* identifier occurs once, and both hold at most 20 entries; what is kept for
\* the other observations is not changed by the call.
C28_HeapAndDataAgree == []HeapMatchesData /\ [][OtherObservationsKept]_vars

\* the first observation keeps 20 of more than 20 models while models enter the
\* heap of the second
C28_Witness ==
    \E u1, u2 \in DOMAIN top_n_models_heapq :
        /\ u1 # u2
        /\ Cardinality(top_n_models_heapq[u1]) = max_n_models_to_plot
        /\ Cardinality(Evaluated(u1)) > max_n_models_to_plot
        /\ Cardinality(top_n_models_heapq[u2]) >= 2

(***************************************************************************)
(* The masked identity of a CombinedRun.                                   *)
(***************************************************************************)
\* the combined record falls under the aggregation key of its inputs
SameKeyAsInputs == c_result.run.uid_ignoring_fields = c_data[1].uid_ignoring_fields

\* the key is kept whenever the combined n_words is the inputs' n_words
KeyKeptWhenWordsKept ==
    /\ c_phase \in {"combined", "written", "reparsed"}
    /\ c_result.st = "ok"
    /\ ExpectedWords = WordList[1]
    => SameKeyAsInputs

\* C29: the CombinedRun returned by combine_runs has the masked identity
\* (uid_ignoring_fields) of the records it was built from, for every choice of
\* fields_to_combine, so it can be grouped under the same key again.
C29_CombinedKeepsIdentity ==
    c_phase \in {"combined", "written", "reparsed"} /\ c_result.st = "ok"
        => SameKeyAsInputs

(***************************************************************************)
(* combine_runs and the records it is given.                               *)
(***************************************************************************)
\* every list of every input record holds what it held before the call
InputsUnchanged ==
    \A id \in DOMAIN InputLists(c_data) :
        id \in DOMAIN c_lists.lists /\ c_lists.lists[id] = InputLists(c_data)[id]

\* the two lists of the result are lists of no input record
ResultSharesNothing ==
    c_lists.st = "ok" => {c_lists.db, c_lists.cb} \cap DOMAIN InputLists(c_data) = {}

\* the lists of the result hold what combine_runs returned
ResultListsAreReturned ==
    c_result.st = "ok" /\ OBS_PER_BIT_ERROR_COUNT \in DOMAIN c_result.run.observations
        => /\ c_lists.st = "ok"
           /\ c_lists.lists[c_lists.db]
                  = c_result.run.observations[OBS_PER_BIT_ERROR_COUNT].hist_databurst
           /\ c_lists.lists[c_lists.cb]
                  = c_result.run.observations[OBS_PER_BIT_ERROR_COUNT].hist_codeburst

\* C30: combine_runs leaves its inputs unchanged: after the call, whether it
\* returned or failed, every input record's histograms and sequences are what
\* they were, and the CombinedRun shares no list with an input.
C30_InputsUntouched ==
    c_phase \in {"combined", "written", "reparsed"}
        => /\ InputsUnchanged
           /\ ResultSharesNothing
           /\ ResultListsAreReturned
           /\ c_lists.st = "raise" => c_result.st = "raise"

\* three records were summed into the result, which differs from each of them
C30_Witness ==
    /\ c_phase = "combined"
    /\ c_result.st = "ok"
    /\ Len(c_data) = MaxRuns
    /\ c_lists.st = "ok"
    /\ \A j \in DOMAIN c_data :
           /\ c_lists.lists[<<j, "hist_databurst">>] # c_lists.lists[c_lists.db]
           /\ c_lists.lists[<<j, "hist_codeburst">>] # <<>>

\* the combination failed on a length mismatch after records had been summed
C30_WitnessFailed ==
    /\ c_phase = "combined"
    /\ c_result.st = "raise"
    /\ c_lists.st = "raise"
    /\ c_lists.lists[<<0, "hist_databurst">>] # <<>>
====
